---- MODULE Spec2Model ----
(***************************************************************************)
(* Resumable (TUS) upload engine of the bot's UploadService:               *)
(* uploadWithTusStreaming (session recovery loop), uploadChunksStreaming   *)
(* (chunk loop with retries), checkServerOffset (HEAD probe) and           *)
(* isSessionExpiredError (error classifier), run against an upload server  *)
(* and a network that may lose requests and responses; and the entry point  *)
(* uploadFromLocalPath with resolveFilePath, uploadSmallFile and            *)
(* cleanupFiles, run against a file system.                                 *)
(*                                                                         *)
(* Bytes are scaled: a file is fileSize units long and a chunk CHUNK_SIZE  *)
(* units.  The server keeps, per session, the sequence of file positions   *)
(* it stored; the offsets it reports are its true offsets.                 *)
(***************************************************************************)
EXTENDS Integers, Sequences, FiniteSets, TLC

\* ---------------------------------------------------------------- bounds
MaxFileSize == 3
MaxChunkSize == 2
MaxUpdates == 3
MaxNow == 2
MaxRequests == 2
RandomSteps == 2

\* ------------------------------------------------------ program constants
MAX_RETRIES == 5
MAX_SESSION_RESTARTS == 3
RETRY_BASE_DELAY_MS == 1000
MAX_RETRY_DELAY_MS == 30000

VARIABLES
    fileSize,         \* uploadWithTusStreaming's fileSize argument
    CHUNK_SIZE,       \* the chunk size (scaled)
    pc,               \* position of the upload in its code
    sessionRestarts,  \* uploadWithTusStreaming: let sessionRestarts
    uploadLocation,   \* Location header of the last 201 (0: none yet)
    offset,           \* uploadChunksStreaming: let offset
    retry,            \* uploadChunksStreaming: for-loop counter
    success,          \* uploadChunksStreaming: let success
    lastError,        \* uploadChunksStreaming: let lastError
    lectureId,        \* uploadChunksStreaming: let lectureId (0: null)
    fileHandleOpen,   \* the handle of open(filePath, "r") is open
    chunkResult,      \* value returned by uploadChunksStreaming
    result,           \* value returned by uploadWithTusStreaming
    req,              \* HTTP request in flight
    resp,             \* HTTP response (or fetch rejection) in flight
    sessions,         \* server: the sessions it opened (count) and the last one
    hist,             \* history of the run (observations only)
    filePath,         \* uploadFromLocalPath's filePath argument (the reference)
    hostFilesPath,    \* config.localBotApiFilesPath (<< >>: not configured)
    files,            \* file system: the paths that designate a file
    lpc,              \* position of uploadFromLocalPath in its code
    resolvedPath,     \* value returned by resolveFilePath
    localResult,      \* value returned by uploadFromLocalPath
    trace,            \* history of the call: methods tried, unlink calls
    session,          \* ctx.session of one end user
    handlers,         \* the bot's handler invocations, one per update
    handledMediaGroups, \* the bot's map of media group ids to timestamps
    now,              \* Date.now()
    transfers,        \* calls of uploadFromLocalPath that run together
    tmpdir,           \* os.tmpdir(): whose copy each temp file holds (0: no file)
    webhook           \* the webhook server: its secret, its request, its answers

\* the variables of uploadFromLocalPath and of the file system
facadeVars == <<filePath, hostFilesPath, files, lpc, resolvedPath, localResult,
                trace>>

\* the variables of the bot's handlers
callerVars == <<session, handlers, handledMediaGroups>>

\* the clock, the temp directory and the transfers that share them, and the
\* webhook server of the process
poolVars == <<now, transfers, tmpdir, webhook>>

vars == <<fileSize, CHUNK_SIZE, pc, sessionRestarts, uploadLocation, offset,
          retry, success, lastError, lectureId, fileHandleOpen, chunkResult,
          result, req, resp, sessions, hist, facadeVars, callerVars,
          poolVars>>

\* ------------------------------------------------------------- utilities
Min(a, b) == IF a < b THEN a ELSE b

Null == [msg |-> "null", status |-> 0]
Msg(m) == [msg |-> m, status |-> 0]

NoReq == [kind |-> "none"]
NoResp == [kind |-> "none"]
NoResult == [kind |-> "none"]

\* ------------------------------------------------ response bodies (text)
\* A text is a sequence of one-character strings.
UpperChars == <<"A","B","C","D","E","F","G","H","I","J","K","L","M",
                "N","O","P","Q","R","S","T","U","V","W","X","Y","Z">>
LowerChars == <<"a","b","c","d","e","f","g","h","i","j","k","l","m",
                "n","o","p","q","r","s","t","u","v","w","x","y","z">>

ToLowerCaseChar(ch) ==
    IF \E i \in 1..Len(UpperChars) : UpperChars[i] = ch
    THEN LowerChars[CHOOSE i \in 1..Len(UpperChars) : UpperChars[i] = ch]
    ELSE ch

\* String.prototype.toLowerCase
ToLowerCaseIdentity(text) == text
ToLowerCase(text) == [i \in 1..Len(text) |-> ToLowerCaseChar(text[i])]

\* String.prototype.includes
Includes(text, pattern) ==
    \E s \in 0..(Len(text) - Len(pattern)) :
        \A j \in 1..Len(pattern) : text[s + j] = pattern[j]

sessionExpiredPatterns == <<
    <<"U","P","L","O","A","D","_","N","O","T","_","F","O","U","N","D">>,
    <<"e","x","p","i","r","e","d">>,
    <<"c","o","r","r","u","p","t","e","d">>,
    <<"S","o","m","e","t","h","i","n","g"," ","w","e","n","t"," ","w","r","o","n","g">>,
    <<"n","o","t"," ","f","o","u","n","d">>,
    <<"N","o"," ","s","u","c","h"," ","o","b","j","e","c","t">>,
    <<"m","e","t","a","d","a","t","a">>,
    <<"d","o","e","s"," ","n","o","t"," ","e","x","i","s","t">>,
    <<"i","n","v","a","l","i","d"," ","u","p","l","o","a","d">>,
    <<"s","e","s","s","i","o","n">> >>

\* The error texts the server may send.
BodyEmpty == << >>
BodyBadGateway == <<"B","a","d"," ","g","a","t","e","w","a","y">>
BodyNoSuchObject == <<"N","O"," ","S","U","C","H"," ","O","B","J","E","C","T">>
Bodies == {BodyBadGateway, BodyNoSuchObject}

\* sessionExpiredPatterns.some(pattern =>
\*     lowerErrorText.includes(pattern.toLowerCase()))
SomePatternIncluded(errorText) ==
    LET lowerErrorText == ToLowerCase(errorText)
    IN  \E p \in 1..Len(sessionExpiredPatterns) :
            Includes(lowerErrorText, ToLowerCase(sessionExpiredPatterns[p]))

\* SomePatternIncluded, evaluated once for each text of the model
matchingTexts == {t \in Bodies \cup {BodyEmpty} : SomePatternIncluded(t)} \cup {}

isSessionExpiredErrorAlways(statusCode, errorText) == TRUE
isSessionExpiredErrorPhrasesOnly(statusCode, errorText) ==
    errorText \in matchingTexts
isSessionExpiredError(statusCode, errorText) ==
    IF statusCode = 404 THEN TRUE
    ELSE errorText \in matchingTexts

\* Texts that contain one of the expiry phrases, whatever the letter case.
PhraseBodies == {BodyNoSuchObject}

\* ------------------------------------------------------------- messages
PostReq == [kind |-> "POST"]
HeadReq(uri) == [kind |-> "HEAD", uri |-> uri]
\* PATCH: Upload-Offset header `offset`, body = a buffer of len bytes of
\* which the first `read` are the file bytes [from, from+read)
\* (first: no PATCH was sent on this session before)
PatchReq(uri, off, from, len, read, first) ==
    [kind |-> "PATCH", uri |-> uri, offset |-> off, from |-> from, len |-> len,
     read |-> read, first |-> first]

\* A response as the client reads it: status, Location, Upload-Offset
\* (hasOffset: the header is present), X-Lecture-Id (0: absent), body text.
Response(status, location, hasOffset, uploadOffset, lecture, body) ==
    [kind |-> "response", status |-> status, location |-> location,
     hasOffset |-> hasOffset, uploadOffset |-> uploadOffset,
     lectureId |-> lecture, body |-> body]
FetchError == [kind |-> "error"]

\* ---------------------------------------------------------------- results
Failure(err) ==
    [kind |-> "result", success |-> FALSE, sessionExpired |-> FALSE,
     error |-> err, lectureId |-> 0, isRateLimited |-> FALSE]
RateLimited ==
    [kind |-> "result", success |-> FALSE, sessionExpired |-> FALSE,
     error |-> Msg("Too many uploads. Please wait before uploading more files."),
     lectureId |-> 0, isRateLimited |-> TRUE]
SessionExpired ==
    [kind |-> "result", success |-> FALSE, sessionExpired |-> TRUE,
     error |-> Null, lectureId |-> 0, isRateLimited |-> FALSE]
Success(lecture) ==
    [kind |-> "result", success |-> TRUE, sessionExpired |-> FALSE,
     error |-> Null, lectureId |-> lecture, isRateLimited |-> FALSE]

\* ------------------------------------------------------------------ Init
NoTrace == [tried |-> << >>, unlinked |-> << >>, uploads |-> 0]

\* uploadWithTusStreaming called on its own: no uploadFromLocalPath runs.
\* pendingMedia: undefined
NoMedia == [id |-> 0, duration |-> FALSE]

\* createInitialSessionData(): isUploading and pendingMedia are absent
InitialSessionData == [isUploading |-> FALSE, pendingMedia |-> NoMedia]

\* an update that has not arrived yet
\* checkMinutesForUpload was not called
NoMinutes == [enough |-> "none", returned |-> "none"]

NoHandler == [kind |-> "none", pc |-> "none", media |-> NoMedia,
              outcome |-> "none", group |-> 0, at |-> 0, minutes |-> NoMinutes]

\* message.media_group_id of the albums of the model (0: not in an album)
MediaGroups == {1, 2}

\* const handledMediaGroups = new Map() (-1: the id has no entry)
NoMediaGroups == [g \in MediaGroups |-> -1]

\* no update has arrived
NoCaller ==
    /\ session = InitialSessionData
    /\ handlers = [i \in 1..MaxUpdates |-> NoHandler]
    /\ handledMediaGroups = NoMediaGroups

\* the calls of uploadFromLocalPath that run together
Transfers == {1, 2}

\* path.join(os.tmpdir(), `telegram-file-${Date.now()}.tmp`)
TempFileAt(time) == <<"tmp", "telegram-file", time>>

\* no transfer was started and the temp directory is empty
\* no webhook server is listening
NoWebhook == [expectedSecret |-> "", request |-> [kind |-> "none"],
              stage |-> "none", answered |-> << >>]

NoPool ==
    /\ now = 0
    /\ transfers = [t \in Transfers |->
                       [pc |-> "idle", filePath |-> << >>, tempFile |-> << >>,
                        read |-> 0]]
    /\ tmpdir = [p \in {TempFileAt(time) : time \in 0..MaxNow} |-> 0]
    /\ webhook = NoWebhook

\* a single call of uploadFromLocalPath: nothing runs beside it
Alone ==
    /\ now = 0
    /\ transfers = << >>
    /\ tmpdir = << >>
    /\ webhook = NoWebhook

NoFacade ==
    /\ filePath = << >>
    /\ hostFilesPath = << >>
    /\ files = {}
    /\ lpc = "none"
    /\ resolvedPath = NoResult
    /\ localResult = NoResult
    /\ trace = NoTrace

\* nothing sent, nothing returned, no session on the server
EngineIdle ==
    /\ sessionRestarts = 0
    /\ uploadLocation = 0
    /\ offset = 0
    /\ retry = 0
    /\ success = FALSE
    /\ lastError = Null
    /\ lectureId = 0
    /\ fileHandleOpen = FALSE
    /\ chunkResult = NoResult
    /\ result = NoResult
    /\ req = NoReq
    /\ resp = NoResp
    /\ hist = [creates |-> 0, detected |-> {}, patched |-> FALSE, sig |-> FALSE,
               sigNot409 |-> FALSE, attempts |-> 0, heads |-> 0, lastFail |-> Null,
               lastErr |-> NoResp, conflicts |-> 0, lowered |-> "no", lastPatch |-> -1,
               lecture |-> 0, replaced |-> FALSE, stale |-> {}, delay |-> 0]

\* the server has opened no session
ServerIdle == sessions = [count |-> 0, alive |-> FALSE, data |-> << >>]

Init ==
    /\ NoFacade
    /\ NoCaller
    /\ Alone
    /\ fileSize \in 1..MaxFileSize
    /\ CHUNK_SIZE \in 1..MaxChunkSize
    /\ pc = "tus_while"
    /\ EngineIdle
    /\ ServerIdle

\* the variables of the engine
clientVars == <<pc, sessionRestarts, uploadLocation, offset, retry, success,
                lastError, lectureId, fileHandleOpen, chunkResult, result>>

\* ------------------------------------------- uploadWithTusStreaming
\* while (sessionRestarts <= MAX_SESSION_RESTARTS) { POST ... }
\* and the return after the loop
RestartAllowed(restarts) == restarts <= MAX_SESSION_RESTARTS

TusWhile ==
    /\ pc = "tus_while"
    /\ IF RestartAllowed(sessionRestarts)
       THEN /\ req' = PostReq
            /\ pc' = "await_create"
            /\ hist' = [hist EXCEPT !.creates = @ + 1]
            /\ UNCHANGED result
       ELSE /\ result' = Failure(Msg("Upload failed after multiple session restarts"))
            /\ pc' = "done"
            /\ UNCHANGED <<req, hist>>
    /\ UNCHANGED <<facadeVars, callerVars, poolVars>>
    /\ UNCHANGED <<fileSize, CHUNK_SIZE, sessionRestarts, uploadLocation, offset,
                   retry, success, lastError, lectureId, fileHandleOpen,
                   chunkResult, resp, sessions>>

\* const uploadLocation = createResponse.headers.get("Location")
UploadLocationKept(previous, location) ==
    IF previous # 0 THEN previous ELSE location
UploadLocation(previous, location) == location

\* if (createResponse.status !== 201) { if (status === 429) return {...
\* isRateLimited: true }; return { error: "Failed to create upload: " + status } }
CreateErrorNeverRateLimited(status) ==
    Failure([msg |-> "Failed to create upload", status |-> status])
CreateError(status) ==
    IF status = 429 THEN RateLimited
    ELSE Failure([msg |-> "Failed to create upload", status |-> status])

\* The response to the Create request (or the rejection of fetch, caught by
\* the catch of the loop body); on 201 + Location uploadChunksStreaming is
\* entered: let offset = 0, let lectureId = null.
TusCreated ==
    /\ pc = "await_create"
    /\ resp # NoResp
    /\ resp' = NoResp
    /\ IF resp.kind = "error"
       THEN /\ result' = Failure(Msg("fetch failed"))
            /\ pc' = "done"
            /\ UNCHANGED <<uploadLocation, offset, lectureId>>
       ELSE IF resp.status # 201
       THEN /\ result' = CreateError(resp.status)
            /\ pc' = "done"
            /\ UNCHANGED <<uploadLocation, offset, lectureId>>
       ELSE IF resp.location = 0
       THEN /\ result' = Failure(Msg("No upload location returned"))
            /\ pc' = "done"
            /\ UNCHANGED <<uploadLocation, offset, lectureId>>
       ELSE /\ uploadLocation' = UploadLocation(uploadLocation, resp.location)
            /\ offset' = 0
            /\ lectureId' = 0
            /\ pc' = "open"
            /\ UNCHANGED result
    /\ hist' = IF resp.kind = "response" /\ resp.status = 201 /\ resp.location # 0
               THEN [hist EXCEPT !.patched = FALSE, !.sig = FALSE,
                                 !.sigNot409 = FALSE, !.lastErr = NoResp,
                                 !.lastPatch = -1, !.lecture = 0,
                                 !.replaced = FALSE,
                                 !.stale = @ \cup ({hist.lecture} \ {0})]
               ELSE hist
    /\ UNCHANGED <<facadeVars, callerVars, poolVars>>
    /\ UNCHANGED <<fileSize, CHUNK_SIZE, sessionRestarts, retry, success, lastError,
                   fileHandleOpen, chunkResult, req, sessions>>

\* ------------------------------------------- uploadChunksStreaming
\* await fileHandle.close(): the state of the handle after it
CloseSkipped(handleOpen) == handleOpen
Close(handleOpen) == FALSE

\* const fileHandle = await open(filePath, "r"): a rejection is caught by
\* the catch of uploadWithTusStreaming's loop body.
OpenFile ==
    /\ pc = "open"
    /\ \E opened \in BOOLEAN :
        IF opened
        THEN /\ fileHandleOpen' = TRUE
             /\ pc' = "chunk_while"
             /\ UNCHANGED result
        ELSE /\ result' = Failure(Msg("open failed"))
             /\ pc' = "done"
             /\ UNCHANGED fileHandleOpen
    /\ UNCHANGED <<facadeVars, callerVars, poolVars>>
    /\ UNCHANGED <<fileSize, CHUNK_SIZE, sessionRestarts, uploadLocation, offset,
                   retry, success, lastError, lectureId, chunkResult, req, resp,
                   sessions, hist>>

\* offset < fileSize
MoreToSendFullChunk(off) == off + CHUNK_SIZE <= fileSize
MoreToSend(off) == off < fileSize

\* while (offset < fileSize) { let success = false; let lastError = null;
\* for (let retry = 0; ...) } and the return of success after the loop
ChunkWhile ==
    /\ pc = "chunk_while"
    /\ IF MoreToSend(offset)
       THEN /\ success' = FALSE
            /\ lastError' = Null
            /\ retry' = 0
            /\ pc' = "chunk_for"
            /\ hist' = [hist EXCEPT !.attempts = 0, !.heads = 0, !.conflicts = 0,
                                    !.lastFail = Null,
                                    !.lastErr = NoResp, !.lowered = "no"]
            /\ UNCHANGED <<fileHandleOpen, chunkResult>>
       ELSE /\ fileHandleOpen' = Close(fileHandleOpen)
            /\ chunkResult' = Success(lectureId)
            /\ pc' = "tus_result"
            /\ UNCHANGED <<success, lastError, retry, hist>>
    /\ UNCHANGED <<facadeVars, callerVars, poolVars>>
    /\ UNCHANGED <<fileSize, CHUNK_SIZE, sessionRestarts, uploadLocation, offset,
                   lectureId, result, req, resp, sessions>>

\* The for-loop condition retry < MAX_RETRIES && !success
AttemptAllowedOneMore(r, ok) == r <= MAX_RETRIES /\ ~ok
AttemptAllowed(r, ok) == r < MAX_RETRIES /\ ~ok

\* error: lastError || "Failed to upload chunk after retries"
ExhaustedError(err) ==
    Failure(IF err = Null THEN Msg("Failed to upload chunk after retries") ELSE err)

\* if (retry > 0) { delay; HEAD probe }
\* getRetryDelay(retryCount), in ms, for Math.random() = random / RandomSteps:
\* Math.round(cappedDelay + cappedDelay * 0.25 * (Math.random() * 2 - 1))
getRetryDelay(retryCount, random) ==
    LET exponentialDelay == RETRY_BASE_DELAY_MS * 2 ^ retryCount
        cappedDelay == Min(exponentialDelay, MAX_RETRY_DELAY_MS)
    IN  (2 * cappedDelay * (3 * RandomSteps + 2 * random) + 4 * RandomSteps)
            \div (8 * RandomSteps)

ProbeBeforeAttemptAlways(r) == r >= 0
ProbeBeforeAttempt(r) == r > 0

\* for (...; retry < MAX_RETRIES && !success; ...): on a retry the delay and
\* the HEAD probe of checkServerOffset; after the loop, if (!success) return
ChunkFor ==
    /\ pc = "chunk_for"
    /\ IF AttemptAllowed(retry, success)
       THEN /\ IF ProbeBeforeAttempt(retry)
               THEN /\ req' = HeadReq(uploadLocation)
                    /\ pc' = "await_head"
                    /\ \E random \in 0..RandomSteps :
                         hist' = [hist EXCEPT
                                     !.attempts = @ + 1, !.heads = @ + 1,
                                     !.lowered = "no",
                                     !.delay = getRetryDelay(retry, random)]
               ELSE /\ pc' = "read"
                    /\ hist' = [hist EXCEPT !.attempts = @ + 1, !.lowered = "no"]
                    /\ UNCHANGED req
            /\ UNCHANGED <<fileHandleOpen, chunkResult>>
       ELSE IF ~success
       THEN /\ fileHandleOpen' = Close(fileHandleOpen)
            /\ chunkResult' = ExhaustedError(lastError)
            /\ pc' = "tus_result"
            /\ UNCHANGED <<req, hist>>
       ELSE /\ pc' = "chunk_while"
            /\ UNCHANGED <<fileHandleOpen, chunkResult, req, hist>>
    /\ UNCHANGED <<facadeVars, callerVars, poolVars>>
    /\ UNCHANGED <<fileSize, CHUNK_SIZE, sessionRestarts, uploadLocation, offset,
                   retry, success, lastError, lectureId, result, resp, sessions>>

\* ------------------------------------------------- checkServerOffset
\* The value checkServerOffset returns for a response (offset -1: null).
HeadExpired == [sessionExpired |-> TRUE, offset |-> -1]
HeadOffset(o) == [sessionExpired |-> FALSE, offset |-> o]

checkServerOffset(r) ==
    IF r.kind = "error" THEN HeadOffset(-1)
    ELSE IF r.status = 404 THEN HeadExpired
    ELSE IF r.status >= 400 /\ isSessionExpiredError(r.status, r.body)
    THEN HeadExpired
    ELSE HeadOffset(IF r.hasOffset THEN r.uploadOffset ELSE -1)

\* The expiry signature of a response, as the interface describes it:
\* status 404, or a status >= 400 whose text holds an expiry phrase.
HasSignature(r) ==
    /\ r.kind = "response"
    /\ r.status >= 400
    /\ (r.status = 404 \/ r.body \in PhraseBodies)

\* What the history keeps of a response delivered to the engine: whether it
\* carried the signature.
SeeResponse(h, r) ==
    [h EXCEPT !.sig = @ \/ HasSignature(r),
              !.sigNot409 = @ \/ (HasSignature(r) /\ r.status # 409)]

\* ... and the last error response to a PATCH: its status, and whether its
\* text holds an expiry phrase.
SeePatchResponse(h, r) ==
    [SeeResponse(h, r) EXCEPT
        !.lastErr = IF r.kind = "response" /\ r.status >= 400
                    THEN [kind |-> "response", status |-> r.status,
                          phrase |-> r.body \in PhraseBodies]
                    ELSE @,
        !.conflicts = IF r.kind = "response" /\ r.status = 409
                      THEN @ + 1 ELSE 0]

\* The offset adopted from a probe: headResult.offset !== null &&
\* headResult.offset !== offset
OffsetAfterHeadNoNullCheck(off, headResult) ==
    IF headResult.offset # off THEN headResult.offset ELSE off
OffsetAfterHead(off, headResult) ==
    IF headResult.offset # -1 /\ headResult.offset # off
    THEN headResult.offset ELSE off

\* if (retry > 0) { ... const headResult = await this.checkServerOffset(...) }
HeadDone ==
    /\ pc = "await_head"
    /\ resp # NoResp
    /\ resp' = NoResp
    /\ LET headResult == checkServerOffset(resp)
       IN  IF headResult.sessionExpired
           THEN /\ fileHandleOpen' = Close(fileHandleOpen)
                /\ chunkResult' = SessionExpired
                /\ pc' = "tus_result"
                /\ hist' = [SeeResponse(hist, resp)
                               EXCEPT !.detected = @ \cup {uploadLocation},
                                      !.delay = 0]
                /\ UNCHANGED offset
           ELSE /\ offset' = OffsetAfterHead(offset, headResult)
                /\ pc' = "read"
                /\ hist' = [SeeResponse(hist, resp) EXCEPT
                               !.lowered = IF offset' < offset THEN "probe" ELSE @,
                               !.lastPatch = IF offset' # offset THEN -1 ELSE @,
                               !.delay = 0]
                /\ UNCHANGED <<fileHandleOpen, chunkResult>>
    /\ UNCHANGED <<facadeVars, callerVars, poolVars>>
    /\ UNCHANGED <<fileSize, CHUNK_SIZE, sessionRestarts, uploadLocation, retry,
                   success, lastError, lectureId, result, req, sessions>>

\* ------------------------------------------- one attempt of a chunk
\* const chunkEnd = Math.min(offset + CHUNK_SIZE, fileSize)
ChunkEndUnclamped(off) == off + CHUNK_SIZE
ChunkEnd(off) == Min(off + CHUNK_SIZE, fileSize)

\* const chunkBuffer = Buffer.alloc(chunkSize): the length of the one buffer
\* an attempt allocates, which is sent whole as the PATCH body
BufferAllocWholeFile(chunkSize) == fileSize
BufferAlloc(chunkSize) == chunkSize

\* if (bytesRead !== chunkSize) { lastError = ...; continue }
ReadCompleteAny(bytesRead, chunkSize) == TRUE
ReadComplete(bytesRead, chunkSize) == bytesRead = chunkSize

\* Read the chunk at the current offset and send it: Buffer.alloc(chunkSize)
\* throws for a negative size and fileHandle.read may reject (both reach the
\* outer catch, which closes the handle and rethrows to the catch of
\* uploadWithTusStreaming); a short read fails the attempt without a PATCH.
ReadChunk ==
    /\ pc = "read"
    /\ LET chunkEnd == ChunkEnd(offset)
           chunkSize == chunkEnd - offset
       IN  \E bytesRead \in 0..(IF chunkSize < 0 THEN 0 ELSE chunkSize),
              thrown \in BOOLEAN :
            IF chunkSize < 0 \/ thrown
            THEN /\ fileHandleOpen' = Close(fileHandleOpen)
                 /\ result' = Failure(Msg("read failed"))
                 /\ pc' = "done"
                 /\ hist' = [hist EXCEPT !.lowered = "no"]
                 /\ UNCHANGED <<lastError, retry, req>>
            ELSE IF ~ReadComplete(bytesRead, chunkSize)
            THEN /\ lastError' = Msg("Failed to read chunk from file")
                 /\ retry' = retry + 1
                 /\ pc' = "chunk_for"
                 /\ hist' = [hist EXCEPT !.lastFail = Msg("Failed to read chunk from file"),
                                         !.lowered = "no"]
                 /\ UNCHANGED <<fileHandleOpen, result, req>>
            ELSE /\ req' = PatchReq(uploadLocation, offset, offset,
                                    BufferAlloc(chunkSize), bytesRead,
                                    ~hist.patched)
                 /\ pc' = "await_patch"
                 /\ hist' = [hist EXCEPT !.patched = TRUE, !.lowered = "no",
                                         !.lastPatch = offset]
                 /\ UNCHANGED <<fileHandleOpen, result, lastError, retry>>
    /\ UNCHANGED <<facadeVars, callerVars, poolVars>>
    /\ UNCHANGED <<fileSize, CHUNK_SIZE, sessionRestarts, uploadLocation, offset,
                   success, lectureId, chunkResult, resp, sessions>>

\* offset = newOffset ? parseInt(newOffset, 10) : chunkEnd
OffsetAfterSuccessRewind(r, chunkEnd) == 0
OffsetAfterSuccess(r, chunkEnd) ==
    IF r.hasOffset THEN r.uploadOffset ELSE chunkEnd

\* if (serverOffset) { offset = parseInt(serverOffset, 10) }
OffsetAfterConflictKept(r, off) == off
OffsetAfterConflict(r, off) ==
    IF r.hasOffset THEN r.uploadOffset ELSE off

\* The message of a failed attempt, from what the attempt met.
FailMessage(r) ==
    IF r.kind = "error" THEN Msg("fetch failed")
    ELSE IF r.status = 409 THEN Msg("Offset mismatch")
    ELSE [msg |-> "Server error", status |-> r.status]

\* How the PATCH branches classify a response.
PatchBranch(r) ==
    IF r.kind = "error" THEN "network"
    ELSE IF r.status = 204 \/ r.status = 200 THEN "ok"
    ELSE IF r.status = 409 THEN "conflict"
    ELSE IF isSessionExpiredError(r.status, r.body) THEN "expired"
    ELSE "server"

\* const respLectureId = patchResponse.headers.get("X-Lecture-Id");
\* if (respLectureId) lectureId = respLectureId
LectureAfterSuccessFirst(r, current) ==
    IF current # 0 THEN current ELSE r.lectureId
LectureAfterSuccess(r, current) ==
    IF r.lectureId # 0 THEN r.lectureId ELSE current

\* The response to the PATCH (or the rejection of fetch) and the end of the
\* for-loop body: retry++ happens on every path that stays in the loop.
\* the 409 branch ends without break or continue: the loop's retry++ runs
RetryAfterConflictFree(r) == r
RetryAfterConflict(r) == r + 1

PatchDone ==
    /\ pc = "await_patch"
    /\ resp # NoResp
    /\ resp' = NoResp
    /\ LET branch == PatchBranch(resp)
           chunkEnd == ChunkEnd(offset)
           seen == SeePatchResponse(hist, resp)
       IN  CASE branch = "ok" ->
                 /\ offset' = OffsetAfterSuccess(resp, chunkEnd)
                 /\ lectureId' = LectureAfterSuccess(resp, lectureId)
                 /\ success' = TRUE
                 /\ retry' = retry + 1
                 /\ pc' = "chunk_for"
                 /\ hist' = [seen EXCEPT
                        !.lecture = IF resp.lectureId # 0
                                    THEN resp.lectureId ELSE @,
                        !.replaced = @ \/ (resp.lectureId # 0 /\ hist.lecture # 0
                                           /\ resp.lectureId # hist.lecture)]
                 /\ UNCHANGED <<lastError, fileHandleOpen, chunkResult>>
             [] branch = "conflict" ->
                 /\ offset' = OffsetAfterConflict(resp, offset)
                 /\ lastError' = Msg("Offset mismatch")
                 /\ retry' = RetryAfterConflict(retry)
                 /\ pc' = "chunk_for"
                 /\ hist' = [seen EXCEPT !.lastFail = FailMessage(resp),
                                         !.lowered = IF offset' < offset
                                                     THEN "conflict" ELSE @,
                                         !.lastPatch = IF offset' # offset
                                                       THEN -1 ELSE @]
                 /\ UNCHANGED <<lectureId, success, fileHandleOpen, chunkResult>>
             [] branch = "expired" ->
                 /\ fileHandleOpen' = Close(fileHandleOpen)
                 /\ chunkResult' = SessionExpired
                 /\ pc' = "tus_result"
                 /\ hist' = [seen EXCEPT !.detected = @ \cup {uploadLocation}]
                 /\ UNCHANGED <<offset, lectureId, success, retry, lastError>>
             [] branch = "server" ->
                 /\ lastError' = [msg |-> "Server error", status |-> resp.status]
                 /\ retry' = retry + 1
                 /\ pc' = "chunk_for"
                 /\ hist' = [seen EXCEPT !.lastFail = FailMessage(resp)]
                 /\ UNCHANGED <<offset, lectureId, success, fileHandleOpen, chunkResult>>
             [] branch = "network" ->
                 /\ lastError' = Msg("fetch failed")
                 /\ retry' = retry + 1
                 /\ pc' = "chunk_for"
                 /\ hist' = [seen EXCEPT !.lastFail = FailMessage(resp)]
                 /\ UNCHANGED <<offset, lectureId, success, fileHandleOpen, chunkResult>>
    /\ UNCHANGED <<facadeVars, callerVars, poolVars>>
    /\ UNCHANGED <<fileSize, CHUNK_SIZE, sessionRestarts, uploadLocation, result,
                   req, sessions>>

\* ------------------------------- uploadWithTusStreaming, after the transfer
\* if (result.sessionExpired) { sessionRestarts++; if (sessionRestarts >
\* MAX_SESSION_RESTARTS) return {...}; continue; } return result;
\* The locals of the uploadChunksStreaming call that returned are gone.
RestartBoundExceededEarly(restarts) == restarts >= MAX_SESSION_RESTARTS
RestartBoundExceeded(restarts) == restarts > MAX_SESSION_RESTARTS

TusResult ==
    /\ pc = "tus_result"
    /\ IF chunkResult.sessionExpired
       THEN /\ sessionRestarts' = sessionRestarts + 1
            /\ IF RestartBoundExceeded(sessionRestarts + 1)
               THEN /\ result' = Failure(Msg("Upload session expired multiple times. Please try again later."))
                    /\ pc' = "done"
               ELSE /\ pc' = "tus_while"
                    /\ UNCHANGED result
       ELSE /\ result' = chunkResult
            /\ pc' = "done"
            /\ UNCHANGED sessionRestarts
    /\ chunkResult' = NoResult
    /\ offset' = 0
    /\ retry' = 0
    /\ success' = FALSE
    /\ lastError' = Null
    /\ lectureId' = 0
    /\ hist' = [hist EXCEPT !.attempts = 0, !.heads = 0, !.conflicts = 0,
                                    !.lastFail = Null,
                            !.lastErr = NoResp, !.lowered = "no", !.lastPatch = -1]
    /\ UNCHANGED <<facadeVars, callerVars, poolVars>>
    /\ UNCHANGED <<fileSize, CHUNK_SIZE, uploadLocation, fileHandleOpen, req, resp,
                   sessions>>

\* ------------------------------------------------- the upload server
\* The server and the network are the environment of the engine.  The
\* server follows the resumable-upload protocol: it stores a PATCH body only
\* at its own offset and the offsets it reports are its true offsets.  It may
\* omit any header the client treats as optional, store only a prefix of a
\* body, answer any request with an error text of its choice, and lose the
\* session.  Only the session created last is tracked (count is its uri,
\* data the file positions it stored, in order); a request to an earlier
\* session is answered as one to a lost session.
Live(uri) == uri = sessions.count /\ sessions.alive

\* file positions from, from+1, ..., from+k-1
Bytes(from, k) == [i \in 1..k |-> from + i - 1]

ErrorResponses(statuses, bodies) ==
    {Response(st, 0, FALSE, 0, 0, b) : st \in statuses, b \in bodies}

ServerCreate ==
    /\ req = PostReq
    /\ req' = NoReq
    /\ \/ /\ sessions' = [count |-> sessions.count + 1, alive |-> TRUE,
                          data |-> << >>]
          /\ resp' = Response(201, sessions.count + 1, FALSE, 0, 0, BodyEmpty)
       \/ /\ resp' \in {Response(201, 0, FALSE, 0, 0, BodyEmpty)}
                       \cup ErrorResponses({429, 500}, {BodyBadGateway})
          /\ UNCHANGED sessions
    /\ UNCHANGED <<facadeVars, callerVars, poolVars>>
    /\ UNCHANGED <<fileSize, CHUNK_SIZE, clientVars, hist>>

\* X-Lecture-Id of an answer of that server (0: no header): one of two
\* identifiers of the session
LectureIds(uri) == {0, 2 * uri - 1, 2 * uri}

\* The answers of a session that is lost (now, or earlier).
LostSession(uri) ==
    /\ resp' \in ErrorResponses({404}, {BodyEmpty}) \cup ErrorResponses({500}, Bodies)
    /\ sessions' = IF uri = sessions.count
                   THEN [sessions EXCEPT !.alive = FALSE] ELSE sessions

ServerPatch ==
    /\ req.kind = "PATCH"
    /\ req' = NoReq
    /\ LET at == Len(sessions.data)
       IN  \/ LostSession(req.uri)
           \/ /\ Live(req.uri)
              /\ resp' \in ErrorResponses({500}, Bodies)
              /\ UNCHANGED sessions
           \/ /\ Live(req.uri)
              /\ req.offset # at
              /\ resp' \in {Response(409, 0, h, IF h THEN at ELSE 0, 0, b) :
                               h \in BOOLEAN, b \in Bodies}
              /\ UNCHANGED sessions
           \/ /\ Live(req.uri)
              /\ req.offset = at
              /\ \E k \in 0..Min(req.len, fileSize - at) :
                   /\ sessions' = [sessions EXCEPT !.data = @ \o Bytes(req.from, k)]
                   /\ resp' \in {Response(st, 0, h, IF h THEN at + k ELSE 0,
                                          IF l /\ at + k = fileSize THEN req.uri ELSE 0,
                                          BodyEmpty) :
                                    st \in {200, 204}, h \in BOOLEAN, l \in BOOLEAN}
    /\ UNCHANGED <<facadeVars, callerVars, poolVars>>
    /\ UNCHANGED <<fileSize, CHUNK_SIZE, clientVars, hist>>

\* A server that may announce an identifier with any chunk it accepts and
\* mint another one later: it writes the chunks whole, fails with 500 or
\* loses the session.
LecturePatch ==
    /\ req.kind = "PATCH"
    /\ req' = NoReq
    /\ LET at == Len(sessions.data)
       IN  \/ /\ resp' \in ErrorResponses({404}, {BodyEmpty})
              /\ sessions' = IF req.uri = sessions.count
                             THEN [sessions EXCEPT !.alive = FALSE] ELSE sessions
           \/ /\ Live(req.uri)
              /\ resp' \in ErrorResponses({500}, {BodyEmpty})
              /\ UNCHANGED sessions
           \/ /\ Live(req.uri)
              /\ req.offset = at
              /\ sessions' = [sessions EXCEPT !.data = @ \o Bytes(req.from, req.len)]
              /\ resp' \in {Response(204, 0, TRUE, at + req.len, l, BodyEmpty) :
                               l \in LectureIds(req.uri)}
    /\ UNCHANGED <<facadeVars, callerVars, poolVars>>
    /\ UNCHANGED <<fileSize, CHUNK_SIZE, clientVars, hist>>

ServerHead ==
    /\ req.kind = "HEAD"
    /\ req' = NoReq
    /\ \/ LostSession(req.uri)
       \/ /\ Live(req.uri)
          /\ resp' \in ErrorResponses({500}, Bodies)
                       \cup {Response(200, 0, h, IF h THEN Len(sessions.data) ELSE 0,
                                      0, BodyEmpty) : h \in BOOLEAN}
          /\ UNCHANGED sessions
    /\ UNCHANGED <<facadeVars, callerVars, poolVars>>
    /\ UNCHANGED <<fileSize, CHUNK_SIZE, clientVars, hist>>

\* The request never reaches the server: fetch rejects.
RequestLost ==
    /\ req # NoReq
    /\ req' = NoReq
    /\ resp' = FetchError
    /\ UNCHANGED <<facadeVars, callerVars, poolVars>>
    /\ UNCHANGED <<fileSize, CHUNK_SIZE, clientVars, sessions, hist>>

\* The server answered but the answer never reaches the client.
ResponseLost ==
    /\ resp # NoResp
    /\ resp.kind = "response"
    /\ resp' = FetchError
    /\ UNCHANGED <<facadeVars, callerVars, poolVars>>
    /\ UNCHANGED <<fileSize, CHUNK_SIZE, clientVars, req, sessions, hist>>

Next ==
    \/ TusWhile
    \/ TusCreated
    \/ OpenFile
    \/ ChunkWhile
    \/ ChunkFor
    \/ HeadDone
    \/ ReadChunk
    \/ PatchDone
    \/ TusResult
    \/ ServerCreate
    \/ ServerPatch
    \/ ServerHead
    \/ RequestLost
    \/ ResponseLost

Spec == Init /\ [][Next]_vars

\* The engine runs on without pause (every await resolves or rejects): a
\* request in flight is answered or lost, a response is handled.
FairSpec == Spec /\ WF_vars(Next)

\* The transfer against a server that announces identifiers early.
LectureNext ==
    \/ TusWhile
    \/ TusCreated
    \/ OpenFile
    \/ ChunkWhile
    \/ ChunkFor
    \/ HeadDone
    \/ ReadChunk
    \/ PatchDone
    \/ TusResult
    \/ ServerCreate
    \/ LecturePatch
    \/ ServerHead

LectureSpec == Init /\ [][LectureNext]_vars


\* ------------------------------------------------------ paths and files
\* A path is the sequence of its segments.
StorageRoot == <<"var", "lib", "telegram-bot-api">>

\* filePath.startsWith("/var/lib/telegram-bot-api/")
StartsWith(path, prefix) ==
    /\ Len(path) > Len(prefix)
    /\ SubSeq(path, 1, Len(prefix)) = prefix

\* filePath.replace("/var/lib/telegram-bot-api/", "")
RelativePath(path) == SubSeq(path, Len(StorageRoot) + 1, Len(path))

\* path.join(hostFilesPath, relativePath)
HostPath(host, path) == host \o RelativePath(path)

\* path.join(os.tmpdir(), `telegram-file-${Date.now()}.tmp`)
TempFile == <<"tmp", "telegram-file.tmp">>

\* The references and the mount point of the model.
RootRef == StorageRoot \o <<"videos", "file_0.mp4">>
RemoteRef == <<"videos", "file_0.mp4">>
MountRoot == <<"mnt", "bot-api">>

\* fileSizeMB > TUS_THRESHOLD_MB: the threshold (10 MB) is two chunks (5 MB)
TUS_THRESHOLD == 2 * CHUNK_SIZE

\* if (fileSizeMB > TUS_THRESHOLD_MB) uploadWithTusStreaming else uploadSmallFile
UseTusFromThreshold(size) == size >= TUS_THRESHOLD
UseTus(size) == size > TUS_THRESHOLD

\* ------------------------------------------------------ resolveFilePath
\* { success: true, actualPath, tempPath } (tempPath << >>: not set)
Resolved(actual, temp) ==
    [kind |-> "resolved", success |-> TRUE, actualPath |-> actual,
     tempPath |-> temp, error |-> Null]

\* { success: false, error }: the text of the error and the value
\* interpolated into it (a status, or a path in detail)
Unresolved(msg, status, detail) ==
    [kind |-> "resolved", success |-> FALSE, actualPath |-> << >>,
     tempPath |-> << >>,
     error |-> [msg |-> msg, status |-> status, detail |-> detail]]

\* if (!resolvedPath.success) return { success: false,
\*     error: resolvedPath.error || "Failed to access file" }
FacadeFailure(err) ==
    [kind |-> "result", success |-> FALSE, sessionExpired |-> FALSE,
     error |-> err, lectureId |-> 0, isRateLimited |-> FALSE]

\* catch (error) { return { success: false, error: error.message } }: what
\* the caller of uploadFromLocalPath gets for an exception in its try block
CaughtRethrown(err) ==
    [kind |-> "thrown", success |-> FALSE, sessionExpired |-> FALSE,
     error |-> err, lectureId |-> 0, isRateLimited |-> FALSE]
Caught(err) == FacadeFailure(err)

Tried(method) == [trace EXCEPT !.tried = Append(@, method)]

\* uploadFromLocalPath is called: the reference is under the storage root
\* (with or without a mounted volume, the file being reachable directly, on
\* the mount, or only in the container) or it is a remote reference.
\* ------------------------------------- handleTypeSelection, the report
\* errorMessage.includes("file is too big") || includes("file_too_big")
TooBigMessages == {"Bad Request: file is too big", "file_too_big"}
isFileTooLarge(err) == err # Null /\ err.msg \in TooBigMessages

\* The text the catch block edits into the message for a thrown error.
CatchText(err) == IF isFileTooLarge(err) THEN "toobig" ELSE "generic"

\* if (result.success && result.lectureId) ... else if (result.isRateLimited)
\* ... else throw new Error(result.error || ...)
ToldSucceeded(res) == res.success /\ res.lectureId # 0

\* The text the user is left with for the result res of the transfer:
\* edited tells whether the edit of the try block is delivered (a rejected
\* edit throws into the catch block), caught whether the edit of the catch
\* block is.
ShownFor(res, edited, caught) ==
    LET thrown == IF ToldSucceeded(res) \/ res.isRateLimited
                  THEN IF edited THEN Null ELSE Msg("editMessageText failed")
                  ELSE res.error
        inTry == IF ToldSucceeded(res) THEN "success" ELSE "ratelimited"
    IN  IF (ToldSucceeded(res) \/ res.isRateLimited) /\ edited THEN inTry
        ELSE IF caught THEN CatchText(thrown)
        ELSE "uploading"

\* handleTypeSelection after uploadFromLocalPath returned: the report of
\* the try block or of the catch block, then the finally block.
TypeSelectionReport ==
    /\ lpc = "returned"
    /\ handlers[1] = NoHandler
    /\ \E edited, caught \in BOOLEAN :
         handlers' = [handlers EXCEPT ![1] =
                        [@ EXCEPT !.kind = "type", !.pc = "done",
                                  !.outcome = ShownFor(localResult, edited, caught)]]
    /\ UNCHANGED <<session, handledMediaGroups>>
    /\ UNCHANGED <<facadeVars, poolVars>>
    /\ UNCHANGED <<fileSize, CHUNK_SIZE, clientVars, req, resp, sessions, hist>>

FacadeInit ==
    /\ filePath \in {RootRef, RemoteRef}
    /\ hostFilesPath \in IF filePath = RootRef THEN {<< >>, MountRoot} ELSE {<< >>}
    /\ files \in IF filePath = RemoteRef THEN {{}}
                 ELSE IF hostFilesPath = << >> THEN SUBSET {RootRef}
                 ELSE SUBSET {RootRef, HostPath(MountRoot, RootRef)}
    /\ lpc = "resolve"
    /\ resolvedPath = NoResult
    /\ localResult = NoResult
    /\ trace = NoTrace
    /\ NoCaller
    /\ Alone
    /\ fileSize \in 1..MaxFileSize
    /\ CHUNK_SIZE \in 1..MaxChunkSize
    /\ pc = "idle"
    /\ EngineIdle
    /\ ServerIdle

engineVars == <<fileSize, CHUNK_SIZE, clientVars, req, resp, sessions, hist>>

\* The method tried when direct access failed: the mounted volume if
\* config.localBotApiFilesPath is set, else docker cp.
AfterDirectFailedDocker(host) == "docker"
AfterDirectFailed(host) == IF host # << >> THEN "mounted" ELSE "docker"

\* resolveFilePath, method 1: stat(filePath) for a reference under the
\* storage root; any other reference goes to the HTTP download.
ResolveFilePath ==
    /\ lpc = "resolve"
    /\ IF StartsWith(filePath, StorageRoot)
       THEN /\ trace' = Tried("direct")
            /\ IF filePath \in files
               THEN /\ resolvedPath' = Resolved(filePath, << >>)
                    /\ lpc' = "stat"
               ELSE /\ lpc' = AfterDirectFailed(hostFilesPath)
                    /\ UNCHANGED resolvedPath
       ELSE /\ lpc' = "http"
            /\ UNCHANGED <<trace, resolvedPath>>
    /\ UNCHANGED <<callerVars, poolVars, filePath, hostFilesPath, files, localResult, engineVars>>

\* return { success: true, actualPath: hostPath }
ResolvedMountedAsTemp(hostPath) == Resolved(hostPath, hostPath)
ResolvedMounted(hostPath) == Resolved(hostPath, << >>)

\* method 2: stat(hostPath) on the mounted volume
ResolveMounted ==
    /\ lpc = "mounted"
    /\ trace' = Tried("mounted")
    /\ LET hostPath == HostPath(hostFilesPath, filePath)
       IN  IF hostPath \in files
           THEN /\ resolvedPath' = ResolvedMounted(hostPath)
                /\ lpc' = "stat"
           ELSE /\ lpc' = "docker"
                /\ UNCHANGED resolvedPath
    /\ UNCHANGED <<callerVars, poolVars, filePath, hostFilesPath, files, localResult, engineVars>>

\* method 3: docker cp into a fresh temp file; when it fails every method
\* has failed, and uploadFromLocalPath returns the error of the resolution.
ResolveDocker ==
    /\ lpc = "docker"
    /\ trace' = Tried("docker")
    /\ \E copied \in BOOLEAN :
        IF copied
        THEN /\ files' = files \cup {TempFile}
             /\ resolvedPath' = Resolved(TempFile, TempFile)
             /\ lpc' = "stat"
             /\ UNCHANGED localResult
        ELSE /\ resolvedPath' = Unresolved("Failed to access file", 0, filePath)
             /\ localResult' = FacadeFailure(resolvedPath'.error)
             /\ lpc' = "returned"
             /\ UNCHANGED files
    /\ UNCHANGED <<callerVars, poolVars, filePath, hostFilesPath, engineVars>>

\* The ways the download of a remote reference ends: a status that is not
\* ok, a response without a body, the whole file written, or an exception
\* (of fetch, of a read, of the write stream).
DownloadOutcomes == {"status", "nobody", "complete", "error"}

\* the HTTP download for a reference that is not under the storage root
ResolveHttp ==
    /\ lpc = "http"
    /\ trace' = Tried("http")
    /\ \E outcome \in DownloadOutcomes, status \in {404, 500}, created \in BOOLEAN :
        CASE outcome = "complete" ->
               /\ files' = files \cup {TempFile}
               /\ resolvedPath' = Resolved(TempFile, TempFile)
               /\ lpc' = "stat"
               /\ UNCHANGED localResult
          [] outcome = "status" ->
               /\ resolvedPath' = Unresolved("Failed to download file from Local Bot API",
                                             status, << >>)
               /\ localResult' = FacadeFailure(resolvedPath'.error)
               /\ lpc' = "returned"
               /\ UNCHANGED files
          [] outcome = "nobody" ->
               /\ files' = files \cup {TempFile}
               /\ resolvedPath' = Unresolved("Failed to get response body reader", 0, << >>)
               /\ localResult' = FacadeFailure(resolvedPath'.error)
               /\ lpc' = "returned"
          [] outcome = "error" ->
               /\ files' = IF created THEN files \cup {TempFile} ELSE files
               /\ resolvedPath' = Unresolved("Failed to download file", 0, << >>)
               /\ localResult' = FacadeFailure(resolvedPath'.error)
               /\ lpc' = "returned"
    /\ UNCHANGED <<callerVars, poolVars, filePath, hostFilesPath, engineVars>>

\* ------------------------------------------------------ uploadSmallFile
UploadReq == [kind |-> "UPLOAD"]

\* a body that JSON.parse accepts
BodyJson == <<"{", "}">>

\* uploadResponse.ok
Ok(status) == 200 <= status /\ status <= 299

\* parseUploadError for a text that names no error code
parseUploadError(statusCode, responseText) ==
    [kind |-> "result", success |-> FALSE, sessionExpired |-> FALSE,
     error |-> IF statusCode = 429
               THEN Msg("Too many uploads. Please wait before uploading more files.")
               ELSE [msg |-> "Upload failed with status", status |-> statusCode],
     lectureId |-> 0, isRateLimited |-> statusCode = 429]

\* The value uploadFromLocalPath gets from uploadSmallFile for a response:
\* a rejected fetch and a body JSON.parse refuses throw into its catch.
SmallResult(r) ==
    IF r.kind = "error" THEN Caught(Msg("fetch failed"))
    ELSE IF ~Ok(r.status) THEN parseUploadError(r.status, r.body)
    ELSE IF r.body # BodyJson THEN Caught(Msg("Unexpected token"))
    ELSE Success(r.lectureId)

\* ------------------------------------------------------ cleanupFiles
\* The unlink calls of cleanupFiles, in order, and the files left (an unlink
\* of a path that designates no file fails and is ignored).
cleanupFilesTempTwice(fs, actualFilePath, tempFilePath, originalPath) ==
    LET first == IF tempFilePath # << >> THEN <<tempFilePath>> ELSE << >>
        second == IF StartsWith(originalPath, StorageRoot)
                  THEN <<actualFilePath>> ELSE << >>
        calls == first \o second
    IN  [files |-> fs \ {calls[i] : i \in 1..Len(calls)}, unlinked |-> calls]
cleanupFiles(fs, actualFilePath, tempFilePath, originalPath) ==
    LET first == IF tempFilePath # << >> /\ tempFilePath # actualFilePath
                 THEN <<tempFilePath>> ELSE << >>
        second == IF StartsWith(originalPath, StorageRoot)
                  THEN <<actualFilePath>> ELSE << >>
        calls == first \o second
    IN  [files |-> fs \ {calls[i] : i \in 1..Len(calls)}, unlinked |-> calls]

\* ------------------------------------------------- uploadFromLocalPath
\* const fileStats = await stat(actualFilePath); then the choice of the
\* upload by size.  uploadSmallFile reads the whole file (an exception of
\* the read stream reaches the catch of uploadFromLocalPath) and sends it.
StatFile ==
    /\ lpc = "stat"
    /\ IF resolvedPath.actualPath \notin files
       THEN /\ localResult' = Caught(Msg("ENOENT"))
            /\ lpc' = "returned"
            /\ UNCHANGED <<pc, req, trace>>
       ELSE IF UseTus(fileSize)
       THEN /\ pc' = "tus_while"
            /\ lpc' = "tus"
            /\ UNCHANGED <<localResult, req, trace>>
       ELSE \E readable \in BOOLEAN :
              IF readable
              THEN /\ req' = UploadReq
                   /\ lpc' = "small"
                   /\ trace' = [trace EXCEPT !.uploads = @ + 1]
                   /\ UNCHANGED <<localResult, pc>>
              ELSE /\ localResult' = Caught(Msg("read failed"))
                   /\ lpc' = "returned"
                   /\ UNCHANGED <<pc, req, trace>>
    /\ UNCHANGED <<callerVars, poolVars, filePath, hostFilesPath, files, resolvedPath>>
    /\ UNCHANGED <<fileSize, CHUNK_SIZE, sessionRestarts, uploadLocation, offset,
                   retry, success, lastError, lectureId, fileHandleOpen,
                   chunkResult, result, resp, sessions, hist>>

\* if (!result.success) return result;  await this.cleanupFiles(...)
CleanupAfterAlways(res) == TRUE
CleanupAfter(res) == res.success

\* The end of uploadFromLocalPath once the upload returned res.
Finish(res) ==
    LET cleaned == cleanupFiles(files, resolvedPath.actualPath,
                                resolvedPath.tempPath, filePath)
    IN  /\ localResult' = res
        /\ lpc' = "returned"
        /\ IF CleanupAfter(res)
           THEN /\ files' = cleaned.files
                /\ trace' = [trace EXCEPT !.unlinked = @ \o cleaned.unlinked]
           ELSE UNCHANGED <<files, trace>>

\* uploadWithTusStreaming returned
TusReturned ==
    /\ lpc = "tus"
    /\ pc = "done"
    /\ Finish(result)
    /\ UNCHANGED <<callerVars, poolVars, filePath, hostFilesPath, resolvedPath, engineVars>>

\* the response to the multipart POST of uploadSmallFile
SmallDone ==
    /\ lpc = "small"
    /\ resp # NoResp
    /\ resp' = NoResp
    /\ Finish(SmallResult(resp))
    /\ UNCHANGED <<callerVars, poolVars, filePath, hostFilesPath, resolvedPath>>
    /\ UNCHANGED <<fileSize, CHUNK_SIZE, clientVars, req, sessions, hist>>

\* The server's answers to a multipart upload.
ServerUpload ==
    /\ req = UploadReq
    /\ req' = NoReq
    /\ resp' \in {Response(200, 0, FALSE, 0, l, BodyJson) : l \in {0, 1}}
                 \cup {Response(200, 0, FALSE, 0, 0, BodyBadGateway)}
                 \cup ErrorResponses({429, 500}, {BodyBadGateway})
    /\ UNCHANGED <<facadeVars, callerVars, poolVars>>
    /\ UNCHANGED <<fileSize, CHUNK_SIZE, clientVars, sessions, hist>>

FacadeNext ==
    \/ ResolveFilePath
    \/ ResolveMounted
    \/ ResolveDocker
    \/ ResolveHttp
    \/ StatFile
    \/ TusReturned
    \/ SmallDone
    \/ ServerUpload
    \/ TypeSelectionReport
    \/ Next

FacadeSpec == FacadeInit /\ [][FacadeNext]_vars

\* ------------------------------------------------ the fault scenarios
\* A 10-chunk upload against a server and a disk that work, but for one
\* fault: in scenario "B" the first PATCH of chunk 3 is answered by a server
\* error without expiry signature; in scenario "C" the PATCH of chunk 5 is
\* answered "not found" and the session is gone.  The server counts the
\* PATCH and HEAD requests it receives.
ScenarioChunks == 10

FaultChunk(scenario) == IF scenario = "C" THEN 5 ELSE 3

ScenarioInit ==
    /\ NoFacade
    /\ NoCaller
    /\ Alone
    /\ CHUNK_SIZE \in 1..MaxChunkSize
    /\ fileSize = ScenarioChunks * CHUNK_SIZE
    /\ pc = "tus_while"
    /\ EngineIdle
    /\ \E scenario \in {"B", "C"} :
         sessions = [count |-> 0, alive |-> FALSE, data |-> << >>,
                     scenario |-> scenario, faulted |-> FALSE,
                     patches |-> 0, heads |-> 0]

ScenarioCreate ==
    /\ req = PostReq
    /\ req' = NoReq
    /\ sessions' = [sessions EXCEPT !.count = @ + 1, !.alive = TRUE, !.data = << >>]
    /\ resp' = Response(201, sessions.count + 1, FALSE, 0, 0, BodyEmpty)
    /\ UNCHANGED <<facadeVars, callerVars, poolVars>>
    /\ UNCHANGED <<fileSize, CHUNK_SIZE, clientVars, hist>>

ScenarioPatch ==
    /\ req.kind = "PATCH"
    /\ req' = NoReq
    /\ LET at == Len(sessions.data)
           counted == [sessions EXCEPT !.patches = @ + 1]
           fault == /\ ~sessions.faulted
                    /\ req.offset = (FaultChunk(sessions.scenario) - 1) * CHUNK_SIZE
       IN  IF fault /\ sessions.scenario = "C"
           THEN /\ sessions' = [counted EXCEPT !.faulted = TRUE, !.alive = FALSE]
                /\ resp' = Response(404, 0, FALSE, 0, 0, BodyEmpty)
           ELSE IF fault
           THEN /\ sessions' = [counted EXCEPT !.faulted = TRUE]
                /\ resp' = Response(500, 0, FALSE, 0, 0, BodyBadGateway)
           ELSE IF Live(req.uri) /\ req.offset = at
           THEN /\ sessions' = [counted EXCEPT !.data = @ \o Bytes(req.from, req.len)]
                /\ resp' = Response(204, 0, TRUE, at + req.len,
                                    IF at + req.len = fileSize THEN req.uri ELSE 0,
                                    BodyEmpty)
           ELSE /\ sessions' = counted
                /\ resp' = IF Live(req.uri)
                           THEN Response(409, 0, TRUE, at, 0, BodyEmpty)
                           ELSE Response(404, 0, FALSE, 0, 0, BodyEmpty)
    /\ UNCHANGED <<facadeVars, callerVars, poolVars>>
    /\ UNCHANGED <<fileSize, CHUNK_SIZE, clientVars, hist>>

ScenarioHead ==
    /\ req.kind = "HEAD"
    /\ req' = NoReq
    /\ sessions' = [sessions EXCEPT !.heads = @ + 1]
    /\ resp' = IF Live(req.uri)
               THEN Response(200, 0, TRUE, Len(sessions.data), 0, BodyEmpty)
               ELSE Response(404, 0, FALSE, 0, 0, BodyEmpty)
    /\ UNCHANGED <<facadeVars, callerVars, poolVars>>
    /\ UNCHANGED <<fileSize, CHUNK_SIZE, clientVars, hist>>

\* the file opens and every read returns the whole chunk
ScenarioOpenFile == OpenFile /\ fileHandleOpen'
ScenarioReadChunk == ReadChunk /\ pc' = "await_patch"

ScenarioNext ==
    \/ TusWhile
    \/ TusCreated
    \/ ScenarioOpenFile
    \/ ChunkWhile
    \/ ChunkFor
    \/ HeadDone
    \/ ScenarioReadChunk
    \/ PatchDone
    \/ TusResult
    \/ ScenarioCreate
    \/ ScenarioPatch
    \/ ScenarioHead

ScenarioSpec == ScenarioInit /\ [][ScenarioNext]_vars

\* ------------------------------------------------- the bot's handlers
\* handleMedia and handleTypeSelection of one end user. A handler advances
\* from one await to the next; the transfer itself (uploadFromLocalPath or
\* uploadFromUrl) is the stay of handleTypeSelection at "upload".

Updates == 1..MaxUpdates

\* the handlers that were called and have not settled
Running == {i \in Updates : handlers[i].pc \notin {"none", "done"}}

\* the handlers whose transfer is in progress
Uploading == {i \in Updates : handlers[i].pc = "upload"}

At(i, kinds, at) == handlers[i].kind \in kinds /\ handlers[i].pc = at

\* handler i moves to `to` with outcome `out`
Goto(i, to, out) ==
    handlers' = [handlers EXCEPT ![i].pc = to, ![i].outcome = out]

BotStutter == UNCHANGED <<engineVars, facadeVars, transfers, tmpdir, webhook>>

\* ... nor the clock and the map of media groups
BotQuiet == BotStutter /\ UNCHANGED <<now, handledMediaGroups>>

\* if (now - timestamp > 60000) handledMediaGroups.delete(groupId)
MEDIA_GROUP_TTL_MS == 60000

\* Date.now() in the handlers: the bot's clock advances by steps of 60 s
BotDateNow == now * MEDIA_GROUP_TTL_MS

\* cleanupMediaGroups(): the entries older than 60 s are deleted
cleanupMediaGroupsAtAge(groups, dateNow) ==
    [g \in MediaGroups |->
        IF groups[g] # -1 /\ dateNow - groups[g] >= MEDIA_GROUP_TTL_MS
        THEN -1 ELSE groups[g]]
cleanupMediaGroups(groups, dateNow) ==
    [g \in MediaGroups |->
        IF groups[g] # -1 /\ dateNow - groups[g] > MEDIA_GROUP_TTL_MS
        THEN -1 ELSE groups[g]]

\* time passes
BotTick ==
    /\ now < MaxNow
    /\ now' = now + 1
    /\ UNCHANGED <<session, handlers, handledMediaGroups>>
    /\ BotStutter

\* await bot.start(): long polling hands the next update to the middleware
\* once the handler of the previous update has settled
CanDispatchConcurrently(running) == TRUE
CanDispatch(running) == running = {}

\* The next update of the user arrives: a media message, a click on a
\* type button ("type:meeting", "type:custdev") or on "type:cancel".
Dispatch ==
    /\ CanDispatch(Running)
    /\ \E i \in Updates :
         /\ handlers[i].pc = "none"
         /\ \A j \in 1..(i - 1) : handlers[j].pc # "none"
         /\ \E kind \in {"media", "type", "cancel"}, duration \in BOOLEAN,
               group \in MediaGroups \cup {0} :
              /\ kind # "media" => ~duration /\ group = 0
              /\ handlers' = [handlers EXCEPT ![i] =
                     [kind |-> kind, pc |-> "start",
                      media |-> IF kind = "media"
                                THEN [id |-> i, duration |-> duration]
                                ELSE NoMedia,
                      outcome |-> "none", group |-> group, at |-> 0,
                      minutes |-> NoMinutes]]
    /\ UNCHANGED session
    /\ BotQuiet

\* handleMedia after its guards: a message without a usable file or with a
\* file above config.maxFileSize is answered and dropped, another one
\* becomes ctx.session.pendingMedia.
MediaAccept(i, acceptable) ==
    IF acceptable
    THEN /\ session' = [session EXCEPT !.pendingMedia = handlers[i].media]
         /\ Goto(i, "reply", "pending")
    ELSE /\ session' = [session EXCEPT !.pendingMedia = NoMedia]
         /\ Goto(i, "reply", "rejected")

\* a message of an album: the notice is sent once per entry of the map
MediaGroup(i) ==
    LET group == handlers[i].group
        cleaned == cleanupMediaGroups(handledMediaGroups, BotDateNow)
    IN  IF cleaned[group] = -1
        THEN /\ handledMediaGroups' = [cleaned EXCEPT ![group] = BotDateNow]
             /\ handlers' = [handlers EXCEPT ![i].pc = "reply",
                                             ![i].outcome = "notice",
                                             ![i].at = BotDateNow]
        ELSE /\ handledMediaGroups' = cleaned
             /\ handlers' = [handlers EXCEPT ![i].pc = "done",
                                             ![i].outcome = "group",
                                             ![i].at = BotDateNow]

\* handleMedia up to its first await
MediaStart ==
    \E i \in Updates :
      /\ At(i, {"media"}, "start")
      /\ \E acceptable \in BOOLEAN :
           IF handlers[i].group # 0
           THEN MediaGroup(i) /\ UNCHANGED session
           ELSE /\ UNCHANGED handledMediaGroups
                /\ IF session.isUploading
                   THEN Goto(i, "reply", "busy") /\ UNCHANGED session
                   ELSE IF session.pendingMedia # NoMedia
                   THEN Goto(i, "replace", "none") /\ UNCHANGED session
                   ELSE MediaAccept(i, acceptable)
      /\ UNCHANGED now
      /\ BotStutter

\* handleMedia after the notice that the pending file is replaced
MediaReplace ==
    \E i \in Updates :
      /\ At(i, {"media"}, "replace")
      /\ \E acceptable \in BOOLEAN : MediaAccept(i, acceptable)
      /\ BotQuiet

\* the last reply or edit of a handler settles
Replied ==
    \E i \in Updates :
      /\ At(i, {"media", "type", "cancel"}, "reply")
      /\ Goto(i, "done", handlers[i].outcome)
      /\ UNCHANGED session
      /\ BotQuiet

\* handleTypeSelection up to ctx.answerCallbackQuery, which may reject
TypeStart ==
    \E i \in Updates :
      /\ At(i, {"type", "cancel"}, "start")
      /\ \E thrown \in BOOLEAN :
           IF thrown THEN Goto(i, "done", "threw")
           ELSE Goto(i, "answered", "none")
      /\ UNCHANGED session
      /\ BotQuiet

\* type === "cancel"
TypeCancel ==
    \E i \in Updates :
      /\ At(i, {"cancel"}, "answered")
      /\ session' = [session EXCEPT !.pendingMedia = NoMedia]
      /\ Goto(i, "reply", "cancelled")
      /\ BotQuiet

\* ctx.session.isUploading = true; ctx.session.pendingMedia = undefined
MarkUploadingKeepsPending(i, pendingMedia, minutes) ==
    /\ session' = [session EXCEPT !.isUploading = TRUE]
    /\ handlers' = [handlers EXCEPT ![i].pc = "edit", ![i].media = pendingMedia,
                                    ![i].minutes = minutes]
MarkUploading(i, pendingMedia, minutes) ==
    /\ session' = [isUploading |-> TRUE, pendingMedia |-> NoMedia]
    /\ handlers' = [handlers EXCEPT ![i].pc = "edit", ![i].media = pendingMedia,
                                    ![i].minutes = minutes]

\* handleTypeSelection from the read of ctx.session.pendingMedia to its
\* next await: checkMinutesForUpload for a media with a duration, the
\* first editMessageText otherwise
TypeAnswered ==
    \E i \in Updates :
      /\ At(i, {"type"}, "answered")
      /\ LET pendingMedia == session.pendingMedia
         IN  \E authenticated \in BOOLEAN :
               IF pendingMedia = NoMedia
               THEN Goto(i, "reply", "nomedia") /\ UNCHANGED session
               ELSE IF ~authenticated
               THEN Goto(i, "reply", "unauthenticated") /\ UNCHANGED session
               ELSE IF pendingMedia.duration
               THEN /\ handlers' = [handlers EXCEPT ![i].pc = "minutes",
                                                    ![i].media = pendingMedia]
                    /\ UNCHANGED session
               ELSE MarkUploading(i, pendingMedia, NoMinutes)
      /\ BotQuiet

\* pendingMedia.duration in seconds, and what apiClient.getBalance gives:
\* a balance, a failure with the code USER_NOT_FOUND or another failure, or
\* an exception
Durations == {60, 61}
BalanceResponses ==
    {[kind |-> "balance", totalAvailable |-> b] : b \in 0..2}
      \cup {[kind |-> k, totalAvailable |-> 0] :
               k \in {"USER_NOT_FOUND", "failure", "exception"}}

\* Math.ceil(estimatedDurationSeconds / 60)
EstimatedMinutes(seconds) == (seconds + 59) \div 60

\* whether the balance covers the duration, as far as the response tells
Enough(response, seconds) ==
    IF response.kind # "balance" THEN "unknown"
    ELSE IF response.totalAvailable >= EstimatedMinutes(seconds) THEN "yes"
    ELSE "no"

\* checkMinutesForUpload: "true", "false", or "throws" for an exception.
\* replied: the ctx.reply of the branch taken resolves; inside the try block
\* its rejection is caught and the function returns true.
checkMinutesForUpload(authenticated, response, seconds, replied) ==
    IF ~authenticated THEN (IF replied THEN "false" ELSE "throws")
    ELSE IF response.kind = "exception" THEN "true"
    ELSE IF response.kind = "USER_NOT_FOUND"
    THEN (IF replied THEN "false" ELSE "true")
    ELSE IF response.kind = "failure" THEN "true"
    ELSE IF response.totalAvailable < EstimatedMinutes(seconds)
    THEN (IF replied THEN "false" ELSE "true")
    ELSE "true"

\* checkMinutesForUpload returned (the session is authenticated: line 471)
TypeMinutes ==
    \E i \in Updates :
      /\ At(i, {"type"}, "minutes")
      /\ \E seconds \in Durations, response \in BalanceResponses,
            replied \in BOOLEAN :
           LET returned == checkMinutesForUpload(TRUE, response, seconds, replied)
               minutes == [enough |-> Enough(response, seconds),
                           returned |-> returned]
           IN  IF returned = "true"
               THEN MarkUploading(i, handlers[i].media, minutes)
               ELSE /\ session' = [session EXCEPT !.pendingMedia = NoMedia]
                    /\ handlers' = [handlers EXCEPT ![i].pc = "done",
                                                    ![i].outcome = "nominutes",
                                                    ![i].minutes = minutes]
      /\ BotQuiet

\* the editMessageText before the try block: its rejection leaves the
\* handler with isUploading still set
TypeEdit ==
    \E i \in Updates :
      /\ At(i, {"type"}, "edit")
      /\ \E thrown \in BOOLEAN :
           IF thrown THEN Goto(i, "done", "threw")
           ELSE Goto(i, "getfile", "none")
      /\ UNCHANGED session
      /\ BotQuiet

\* ctx.api.getFile and the second editMessageText; then the transfer starts
TypeGetFile ==
    \E i \in Updates :
      /\ At(i, {"type"}, "getfile")
      /\ \E ok \in BOOLEAN :
           IF ok THEN Goto(i, "upload", "uploading")
           ELSE Goto(i, "catch", "failed")
      /\ UNCHANGED session
      /\ BotQuiet

\* the transfer returned its result
TypeUploaded ==
    \E i \in Updates :
      /\ At(i, {"type"}, "upload")
      /\ \E reported \in BOOLEAN :
           Goto(i, IF reported THEN "report" ELSE "catch", "uploaded")
      /\ UNCHANGED session
      /\ BotQuiet

\* the edit that reports the result, in the try block or in the catch block
TypeReport ==
    \E i \in Updates :
      /\ handlers[i].kind = "type"
      /\ handlers[i].pc \in {"report", "catch"}
      /\ Goto(i, "finally", handlers[i].outcome)
      /\ UNCHANGED session
      /\ BotQuiet

\* finally { ctx.session.isUploading = false }
TypeFinally ==
    \E i \in Updates :
      /\ At(i, {"type"}, "finally")
      /\ session' = [session EXCEPT !.isUploading = FALSE]
      /\ Goto(i, "done", handlers[i].outcome)
      /\ BotQuiet

BotInit ==
    /\ NoCaller
    /\ Alone
    /\ NoFacade
    /\ fileSize = 1
    /\ CHUNK_SIZE = 1
    /\ pc = "idle"
    /\ EngineIdle
    /\ ServerIdle

BotNext ==
    \/ BotTick
    \/ Dispatch
    \/ MediaStart
    \/ MediaReplace
    \/ Replied
    \/ TypeStart
    \/ TypeCancel
    \/ TypeAnswered
    \/ TypeMinutes
    \/ TypeEdit
    \/ TypeGetFile
    \/ TypeUploaded
    \/ TypeReport
    \/ TypeFinally

BotSpec == BotInit /\ [][BotNext]_vars

\* ------------------------------------------- transfers running together
\* Two calls of uploadFromLocalPath on separate execution contexts, each of
\* which resolves its reference by a copy into the temp directory (docker
\* cp for a reference under the storage root, a download otherwise).

\* the temp files that exist
Existing == {p \in DOMAIN tmpdir : tmpdir[p] # 0}

\* the transfers between the choice of their temp file and their return
InFlight == {t \in Transfers : transfers[t].pc \in {"named", "resolved", "uploaded"}}

PoolStutter == UNCHANGED <<engineVars, facadeVars, callerVars, webhook>>

\* the clock advances by a millisecond
Tick ==
    /\ now < MaxNow
    /\ now' = now + 1
    /\ UNCHANGED <<transfers, tmpdir>>
    /\ PoolStutter

\* resolveFilePath names its temp file after the current time
PoolResolve ==
    \E t \in Transfers, ref \in {RootRef, RemoteRef} :
      /\ transfers[t].pc = "idle"
      /\ transfers' = [transfers EXCEPT ![t] =
             [pc |-> "named", filePath |-> ref, tempFile |-> TempFileAt(now),
              read |-> 0]]
      /\ UNCHANGED <<now, tmpdir>>
      /\ PoolStutter

\* docker cp or the download writes the transfer's file to the temp file,
\* or fails: resolveFilePath returns { success: false }
PoolCopy ==
    \E t \in Transfers, copied \in BOOLEAN :
      /\ transfers[t].pc = "named"
      /\ IF copied
         THEN /\ tmpdir' = [tmpdir EXCEPT ![transfers[t].tempFile] = t]
              /\ transfers' = [transfers EXCEPT ![t].pc = "resolved"]
         ELSE /\ transfers' = [transfers EXCEPT ![t].pc = "returned"]
              /\ UNCHANGED tmpdir
      /\ UNCHANGED now
      /\ PoolStutter

\* stat(actualFilePath) and the upload, which reads the temp file; a
\* missing file and a failed upload return without cleanup
PoolUpload ==
    \E t \in Transfers, uploaded \in BOOLEAN :
      /\ transfers[t].pc = "resolved"
      /\ LET content == tmpdir[transfers[t].tempFile]
         IN  IF content = 0
             THEN transfers' = [transfers EXCEPT ![t].pc = "returned"]
             ELSE transfers' = [transfers EXCEPT
                      ![t].pc = IF uploaded THEN "uploaded" ELSE "returned",
                      ![t].read = content]
      /\ UNCHANGED <<now, tmpdir>>
      /\ PoolStutter

\* cleanupFiles(actualFilePath, resolvedPath.tempPath, filePath)
PoolCleanup ==
    \E t \in Transfers :
      /\ transfers[t].pc = "uploaded"
      /\ LET kept == cleanupFiles(Existing, transfers[t].tempFile,
                                  transfers[t].tempFile,
                                  transfers[t].filePath).files
         IN  tmpdir' = [p \in DOMAIN tmpdir |->
                           IF p \in kept THEN tmpdir[p] ELSE 0]
      /\ transfers' = [transfers EXCEPT ![t].pc = "returned"]
      /\ UNCHANGED now
      /\ PoolStutter

PoolInit ==
    /\ NoPool
    /\ NoCaller
    /\ NoFacade
    /\ fileSize = 1
    /\ CHUNK_SIZE = 1
    /\ pc = "idle"
    /\ EngineIdle
    /\ ServerIdle

PoolNext ==
    \/ Tick
    \/ PoolResolve
    \/ PoolCopy
    \/ PoolUpload
    \/ PoolCleanup

PoolSpec == PoolInit /\ [][PoolNext]_vars

\* -------------------------------------------------- the webhook server
\* createWebhookServer: app.use(express.json()), then the POST routes
\* /webhook/lecture and /webhook/payment, each answering one request.

\* "Bearer " + expectedSecret: a header value is the sequence of its parts
Bearer(secret) == <<"Bearer ", secret>>

\* config.webhookSecret ("": WEBHOOK_SECRET is not set)
WebhookSecrets == {"", "s1"}

\* req.headers.authorization (<< >>: the request has no such header)
AuthHeaders == {<< >>, Bearer("s1"), Bearer("s2"), <<"bearer ", "s1">>}

WebhookPaths == {"/webhook/lecture", "/webhook/payment"}

\* The bodies of the requests: text that is not JSON, an object without a
\* type, a lecture notification and a payment notification.
WebhookBodies ==
    {[kind |-> "malformed", type |-> "none", status |-> "none"],
     [kind |-> "json", type |-> "none", status |-> "none"]}
    \cup {[kind |-> "json", type |-> "lecture_notification", status |-> st] :
             st \in {"completed", "failed"}}
    \cup {[kind |-> "json", type |-> "payment_notification", status |-> st] :
             st \in {"success", "cancelled", "failed"}}

WebhookRequests ==
    {[kind |-> "POST", path |-> p, authorization |-> a, body |-> b] :
        p \in WebhookPaths, a \in AuthHeaders, b \in WebhookBodies}

\* if (expectedSecret && authHeader !== "Bearer " + expectedSecret)
UnauthorizedWhenAbsent(expectedSecret, authHeader) ==
    expectedSecret # "" /\ authHeader = << >>
Unauthorized(expectedSecret, authHeader) ==
    expectedSecret # "" /\ authHeader # Bearer(expectedSecret)

\* the type each route expects of its notification
ExpectedType(path) ==
    IF path = "/webhook/lecture" THEN "lecture_notification"
    ELSE "payment_notification"

\* the message sendLectureNotification and sendPaymentNotification send
sendLectureNotification(status) ==
    IF status = "completed" THEN "is ready" ELSE "Processing Failed"
sendPaymentNotification(status) ==
    IF status = "success" THEN "To'lov muvaffaqiyatli"
    ELSE IF status = "cancelled" THEN "To'lov bekor qilindi"
    ELSE "To'lov amalga oshmadi"

\* res.status(status).json(...): the request is answered; messages are the
\* calls of bot.api.sendMessage it caused
Answer(status, messages) ==
    webhook' = [webhook EXCEPT
                   !.request = [kind |-> "none"],
                   !.stage = "listening",
                   !.answered = Append(@, [request |-> webhook.request,
                                           status |-> status,
                                           messages |-> messages])]

WebhookStutter == UNCHANGED <<engineVars, facadeVars, callerVars, now, transfers, tmpdir>>

\* a POST arrives
WebhookPost ==
    /\ webhook.stage = "listening"
    /\ Len(webhook.answered) < MaxRequests
    /\ \E request \in WebhookRequests :
         webhook' = [webhook EXCEPT !.request = request, !.stage = "json"]
    /\ WebhookStutter

\* express.json(): a body that does not parse is answered 400 by the
\* middleware and never reaches its route
ExpressJson ==
    /\ webhook.stage = "json"
    /\ IF webhook.request.body.kind = "malformed"
       THEN Answer(400, << >>)
       ELSE webhook' = [webhook EXCEPT !.stage = "route"]
    /\ WebhookStutter

\* the common start of both routes: the secret, then the notification type
Route(path) ==
    /\ webhook.stage = "route"
    /\ webhook.request.path = path
    /\ IF Unauthorized(webhook.expectedSecret, webhook.request.authorization)
       THEN Answer(401, << >>)
       ELSE IF webhook.request.body.type # ExpectedType(path)
       THEN Answer(400, << >>)
       ELSE webhook' = [webhook EXCEPT !.stage = "send"]
    /\ WebhookStutter

\* app.post("/webhook/lecture", ...)
WebhookLecture == Route("/webhook/lecture")

\* app.post("/webhook/payment", ...)
WebhookPayment == Route("/webhook/payment")

\* await send...Notification(bot, notification): bot.api.sendMessage is
\* called once; res.json({ success: true }), or 500 if the call rejected
WebhookSend ==
    /\ webhook.stage = "send"
    /\ LET status == webhook.request.body.status
           text == IF webhook.request.path = "/webhook/lecture"
                   THEN sendLectureNotification(status)
                   ELSE sendPaymentNotification(status)
       IN  \E delivered \in BOOLEAN :
             Answer(IF delivered THEN 200 ELSE 500, <<text>>)
    /\ WebhookStutter

WebhookInit ==
    /\ webhook \in {[NoWebhook EXCEPT !.expectedSecret = secret,
                                      !.stage = "listening"] :
                       secret \in WebhookSecrets}
    /\ now = 0
    /\ transfers = << >>
    /\ tmpdir = << >>
    /\ NoCaller
    /\ NoFacade
    /\ fileSize = 1
    /\ CHUNK_SIZE = 1
    /\ pc = "idle"
    /\ EngineIdle
    /\ ServerIdle

WebhookNext ==
    \/ WebhookPost
    \/ ExpressJson
    \/ WebhookLecture
    \/ WebhookPayment
    \/ WebhookSend

WebhookSpec == WebhookInit /\ [][WebhookNext]_vars

\* ================================================================ claims
InChunkLoop == pc \in {"chunk_while", "chunk_for", "await_head", "read", "await_patch"}
ExpiredMessage == Msg("Upload session expired multiple times. Please try again later.")

\* C1: whenever uploadWithTusStreaming reports success, the bytes the server
\* accepted in the session that completed are exactly the bytes [0, fileSize)
\* of the file, each once and in order.
C1_AcceptedExactlyOnce ==
    (pc = "done" /\ result.success) =>
        /\ uploadLocation = sessions.count
        /\ sessions.data = Bytes(0, fileSize)

\* C2: uploadChunksStreaming changes its offset only to a value the server
\* reported in the response being handled (2xx PATCH, 409 or HEAD probe),
\* never to a locally computed offset + n; the offset of a new call starts
\* at 0.
C2_OffsetOnlyServerReported ==
    [][offset' # offset =>
          \/ pc \in {"await_create", "tus_result"} /\ offset' = 0
          \/ /\ pc \in {"await_patch", "await_head"}
             /\ resp.kind = "response"
             /\ resp.hasOffset
             /\ offset' = resp.uploadOffset]_vars

C4_OffsetWithinFile ==
    /\ InChunkLoop => (0 <= offset /\ offset <= fileSize)
    /\ req.kind = "PATCH" =>
          /\ req.offset = offset
          /\ req.from = offset
          /\ req.len >= 0
          /\ req.offset + req.len <= fileSize

\* the PATCH of a last, shorter chunk is in flight
C4_Witness ==
    /\ req.kind = "PATCH"
    /\ req.offset > 0
    /\ req.len > 0
    /\ req.len < CHUNK_SIZE
    /\ req.offset + req.len = fileSize

\* C5: uploadChunksStreaming returns success only with offset = fileSize.
C5_CompletedAtFileSize ==
    (pc = "tus_result" /\ chunkResult.success) => offset = fileSize

\* success returned after more than one chunk
C5_Witness ==
    /\ pc = "tus_result"
    /\ chunkResult.success
    /\ offset = fileSize
    /\ CHUNK_SIZE < fileSize

\* C6: every detected expiry is followed by exactly one new Create, up to 3
\* restarts (4 Creates); when the 4th session expires, the upload ends with
\* the expiry failure and no request is in flight.
C6_OneRestartPerExpiry ==
    LET expiries == Cardinality(hist.detected)
    IN  /\ hist.creates <= MAX_SESSION_RESTARTS + 1
        /\ expiries <= MAX_SESSION_RESTARTS + 1
        /\ (pc = "tus_while" \/ (pc = "tus_result" /\ chunkResult.sessionExpired))
              => hist.creates = expiries
        /\ (pc \in {"await_create", "open"} \/ InChunkLoop
              \/ (pc = "tus_result" /\ ~chunkResult.sessionExpired))
              => hist.creates = expiries + 1
        /\ (pc = "done" /\ expiries <= MAX_SESSION_RESTARTS)
              => hist.creates = expiries + 1
        /\ (pc = "done" /\ expiries = MAX_SESSION_RESTARTS + 1)
              => /\ hist.creates = MAX_SESSION_RESTARTS + 1
                 /\ result = Failure(ExpiredMessage)
                 /\ req = NoReq
                 /\ resp = NoResp

\* the session opened by the 3rd restart has expired and the upload ended
C6_Witness ==
    /\ pc = "done"
    /\ Cardinality(hist.detected) = MAX_SESSION_RESTARTS + 1
    /\ hist.creates = MAX_SESSION_RESTARTS + 1

\* C7: the first PATCH of every session carries Upload-Offset 0, and no PATCH
\* or HEAD goes to a session that was detected as expired.
C7_RestartFromZero ==
    /\ req.kind \in {"PATCH", "HEAD"} =>
          /\ req.uri = uploadLocation
          /\ req.uri \notin hist.detected
    /\ (req.kind = "PATCH" /\ req.first) => req.offset = 0

\* the first PATCH of a session opened by a restart is in flight
C7_Witness ==
    /\ req.kind = "PATCH"
    /\ req.first
    /\ req.offset = 0
    /\ hist.detected # {}
    /\ sessionRestarts > 0

\* The engine has left the chunk loop with sessionExpired, or a later step of
\* the recovery loop is running.
Aborted ==
    /\ req.kind \notin {"PATCH", "HEAD"}
    /\ \/ pc = "tus_result" /\ chunkResult = SessionExpired
       \/ pc \in {"tus_while", "await_create", "done"}

\* C8, original: once a PATCH or HEAD response with an expiry signature
\* (status 404, or an expiry phrase in the text of a status >= 400) has been
\* delivered, the engine has aborted with sessionExpired and sends no more
\* PATCH or HEAD on that session.
C8_AbortOnSignature == hist.sig => Aborted

\* C8, amended: the same, for every signature except an expiry phrase in the
\* text of a 409 PATCH response.
C8_AbortOnSignatureNot409 == hist.sigNot409 => Aborted

\* the engine returned sessionExpired on the first attempt of a chunk
C8_Witness ==
    /\ pc = "tus_result"
    /\ chunkResult = SessionExpired
    /\ hist.sigNot409
    /\ hist.attempts = 1
    /\ uploadLocation \in hist.detected

\* The handling of the response to a PATCH.
PatchHandled == pc = "await_patch" /\ resp' = NoResp /\ resp.kind = "response"

\* C9, original: a PATCH response of status >= 400 is treated as session
\* expired if and only if its status is 404 or its text holds an expiry
\* phrase.
C9_ExpiredIffSignature ==
    [][(PatchHandled /\ resp.status >= 400) =>
          ((resp.status = 404 \/ resp.body \in PhraseBodies)
              <=> (pc' = "tus_result" /\ chunkResult' = SessionExpired))]_vars

\* C9, amended: the same for every status >= 400 other than 409; a 409
\* response is never treated as session expired.
C9_ExpiredIffSignatureNot409 ==
    [][(PatchHandled /\ resp.status >= 400) =>
          /\ resp.status # 409 =>
                ((resp.status = 404 \/ resp.body \in PhraseBodies)
                    <=> (pc' = "tus_result" /\ chunkResult' = SessionExpired))
          /\ resp.status = 409 => pc' = "chunk_for"]_vars

\* a 500 response whose text holds a phrase was treated as session expired
C9_Witness ==
    /\ pc = "tus_result"
    /\ chunkResult = SessionExpired
    /\ hist.lastErr.kind = "response"
    /\ hist.lastErr.status = 500
    /\ hist.lastErr.phrase

\* C10: a chunk gets at most 5 attempts; when the last fails,
\* uploadChunksStreaming returns a failure with the message of the last
\* failed attempt and nothing in flight, and uploadWithTusStreaming returns
\* that failure without another Create.
C10_RetryBudget ==
    /\ [](/\ hist.attempts <= MAX_RETRIES
          /\ (pc = "tus_result" /\ ~chunkResult.success /\ ~chunkResult.sessionExpired)
                => /\ hist.attempts = MAX_RETRIES
                   /\ hist.lastFail # Null
                   /\ chunkResult = Failure(hist.lastFail)
                   /\ req = NoReq
                   /\ resp = NoResp)
    /\ [][(pc = "tus_result" /\ ~chunkResult.sessionExpired) =>
             /\ pc' = "done"
             /\ result' = chunkResult
             /\ req' = NoReq
             /\ hist'.creates = hist.creates]_vars

\* the 5th attempt of a chunk failed on a server error after other failures
C10_Witness ==
    /\ pc = "tus_result"
    /\ hist.attempts = MAX_RETRIES
    /\ chunkResult = Failure([msg |-> "Server error", status |-> 500])
    /\ hist.patched

\* C11: the n-th attempt of a chunk (n > 1) is preceded by exactly one HEAD
\* probe issued after attempt n-1, and none precedes the first attempt; a
\* HEAD is sent only from the retry loop of a chunk that has not succeeded;
\* an offset the probe reports is the offset of the attempt that follows, and
\* the PATCH of that attempt carries it.
C11_ProbeBetweenRetries ==
    /\ [](/\ pc \in {"await_head", "read", "await_patch"} =>
                /\ hist.attempts = retry + 1
                /\ hist.heads = retry
                /\ ~success
          /\ req.kind = "HEAD" => (pc = "await_head" /\ retry > 0)
          /\ req.kind = "PATCH" => (pc = "await_patch" /\ req.offset = offset))
    /\ [][/\ (pc = "await_head" /\ pc' = "read" /\ resp.kind = "response"
               /\ resp.hasOffset) => offset' = resp.uploadOffset
          /\ (pc' = "read" /\ pc # "read") =>
                \/ pc = "chunk_for" /\ retry = 0
                \/ pc = "await_head" /\ retry > 0
          /\ (pc = "read" /\ pc' = "await_patch") => req'.offset = offset]_vars

\* the third attempt of a chunk starts at the offset its probe reported
C11_Witness ==
    /\ pc = "read"
    /\ retry = 2
    /\ hist.heads = 2
    /\ hist.lowered = "probe"
    /\ offset = Len(sessions.data)

\* C12: handling a 409 PATCH response never counts the chunk as sent and
\* returns nothing: success stays false, the attempt is recorded as failed
\* with "Offset mismatch", the offset becomes the Upload-Offset X the
\* response carries, and the for loop goes on; the next attempt, if the
\* budget allows one, is the retry (probe, then PATCH from the offset).
C12_ConflictAdoptsOffset ==
    /\ [][(PatchHandled /\ resp.status = 409) =>
             /\ resp.hasOffset => offset' = resp.uploadOffset
             /\ ~success'
             /\ lastError' = Msg("Offset mismatch")
             /\ retry' = retry + 1
             /\ pc' = "chunk_for"
             /\ chunkResult' = NoResult
             /\ result' = NoResult]_vars
    /\ [][(pc = "chunk_for" /\ lastError = Msg("Offset mismatch") /\ ~success
              /\ retry < MAX_RETRIES) =>
             /\ req'.kind = "HEAD"
             /\ pc' = "await_head"
             /\ offset' = offset]_vars

\* a 409 has just lowered the offset to the server's
C12_Witness ==
    /\ pc = "chunk_for"
    /\ lastError = Msg("Offset mismatch")
    /\ hist.lowered = "conflict"
    /\ hist.lastErr.kind = "response"
    /\ hist.lastErr.status = 409
    /\ offset = Len(sessions.data)
    /\ ~success

\* C13: uploadWithTusStreaming always terminates: whatever the server
\* answers and the network loses, it eventually returns a result.
C13_Terminates == <>(pc = "done")

\* The Create request was answered 201 with a Location header.
Created(r) == r.kind = "response" /\ r.status = 201 /\ r.location # 0

\* C14: when a Create (the first or a restart's) is not answered 201 with a
\* Location, the upload ends there with a failure: no request is sent any
\* more (no PATCH, no HEAD, no other Create); the failure is rate-limited
\* exactly when the status was 429.
C14_CreateFailureTerminal ==
    /\ [][(pc = "await_create" /\ resp # NoResp /\ resp' = NoResp /\ ~Created(resp)) =>
             /\ pc' = "done"
             /\ result'.kind = "result"
             /\ ~result'.success
             /\ result'.isRateLimited <=> (resp.kind = "response" /\ resp.status = 429)
             /\ req' = NoReq
             /\ hist'.creates = hist.creates]_vars
    /\ [](pc = "done" => (req = NoReq /\ resp = NoResp /\ result.kind = "result"))
    /\ [][pc = "done" => (pc' = "done" /\ result' = result)]_vars

\* the Create of a restart was answered 429
C14_Witness ==
    /\ pc = "done"
    /\ result = RateLimited
    /\ sessionRestarts > 0
    /\ hist.creates = sessionRestarts + 1

\* uploadFromLocalPath has returned r
LocalReturned == lpc = "returned" /\ localResult.kind = "result"

\* the method by which resolveFilePath succeeded ("none": it has not)
ResolvedBy ==
    IF resolvedPath.kind = "resolved" /\ resolvedPath.success
    THEN trace.tried[Len(trace.tried)] ELSE "none"

\* C15: once uploadFromLocalPath has returned success, the temp file made by
\* the resolution (docker cp or download) designates no file any more, and
\* for a reference under the storage root neither does the resolved path.
C15_CleanedAfterSuccess ==
    (LocalReturned /\ localResult.success) =>
        /\ TempFile \notin files
        /\ StartsWith(filePath, StorageRoot) => resolvedPath.actualPath \notin files

\* C16: uploadFromLocalPath deletes no file unless it returns success: no
\* step but the successful return removes a file, and at a failure return
\* no unlink was called and the resolved file and the temp file are there.
C16_NothingDeletedOnFailure ==
    /\ [][(files \ files' # {} \/ trace'.unlinked # trace.unlinked) =>
             (lpc' = "returned" /\ localResult'.success)]_vars
    /\ []((LocalReturned /\ ~localResult.success) =>
             /\ trace.unlinked = << >>
             /\ ResolvedBy # "none" => resolvedPath.actualPath \in files
             /\ ResolvedBy \in {"docker", "http"} => TempFile \in files)

\* a chunked upload of an extracted temp file failed: the file is still there
C16_Witness ==
    /\ LocalReturned
    /\ ~localResult.success
    /\ ResolvedBy = "docker"
    /\ pc = "done"
    /\ hist.creates = MAX_SESSION_RESTARTS + 1
    /\ TempFile \in files

\* The number of unlink calls on a path.
Unlinks(path) ==
    Cardinality({i \in 1..Len(trace.unlinked) : trace.unlinked[i] = path})

\* C17: when direct and mounted-volume access fail and docker cp succeeds,
\* the resolution yields the temp file with tempPath set, and after a
\* successful upload that file is gone, by exactly one unlink.
C17_ExtractedTempDeletedOnce ==
    ResolvedBy = "docker" =>
        /\ resolvedPath.actualPath = TempFile
        /\ resolvedPath.tempPath = TempFile
        /\ (LocalReturned /\ localResult.success) =>
              /\ TempFile \notin files
              /\ Unlinks(TempFile) = 1
        /\ ~LocalReturned => (TempFile \in files /\ Unlinks(TempFile) = 0)

\* Scenario E after a successful upload
C17_Witness ==
    /\ trace.tried = <<"direct", "mounted", "docker">>
    /\ ResolvedBy = "docker"
    /\ LocalReturned
    /\ localResult.success
    /\ TempFile \notin files

\* C18: resolveFilePath tries direct access, then the mounted volume (when
\* one is configured), then docker cp, each only after the earlier ones
\* failed; nothing is tried after a method succeeded; the HTTP download is
\* the one method of a reference that is not under the storage root, and is
\* never used for one that is.
C18_MethodOrder ==
    /\ [](LET tried == trace.tried
              hostPath == HostPath(hostFilesPath, filePath)
          IN  /\ tried \in {<< >>, <<"direct">>, <<"direct", "mounted">>,
                            <<"direct", "mounted", "docker">>,
                            <<"direct", "docker">>, <<"http">>}
              /\ tried = <<"http">> => ~StartsWith(filePath, StorageRoot)
              /\ (tried # << >> /\ tried # <<"http">>) =>
                    StartsWith(filePath, StorageRoot)
              /\ Len(tried) >= 2 => filePath \notin files
              /\ (Len(tried) >= 2 /\ tried[2] = "mounted") => hostFilesPath # << >>
              /\ tried = <<"direct", "docker">> => hostFilesPath = << >>
              /\ Len(tried) = 3 => hostPath \notin files
              /\ lpc \in {"stat", "small", "tus"} => ResolvedBy # "none")
    /\ [][resolvedPath.kind = "resolved" => trace'.tried = trace.tried]_vars

\* docker cp has succeeded after direct and mounted-volume access failed
C18_Witness ==
    /\ lpc = "stat"
    /\ trace.tried = <<"direct", "mounted", "docker">>
    /\ ResolvedBy = "docker"
    /\ hostFilesPath = MountRoot
    /\ files = {TempFile}

\* C19, original: a result of resolveFilePath obtained by a method other
\* than direct access has tempPath set; one obtained by direct access has
\* not.
C19_TempUnlessDirect ==
    /\ ResolvedBy \in {"mounted", "docker", "http"} => resolvedPath.tempPath # << >>
    /\ ResolvedBy = "direct" => resolvedPath.tempPath = << >>

\* C19, amended: a result obtained by docker cp or by the HTTP download
\* designates a temp file (tempPath is set, and is the actualPath); one
\* obtained by direct access or on the mounted volume has no tempPath.
C19_TempIfCopied ==
    /\ ResolvedBy \in {"docker", "http"} =>
          /\ resolvedPath.tempPath = TempFile
          /\ resolvedPath.actualPath = TempFile
    /\ ResolvedBy = "direct" =>
          /\ resolvedPath.tempPath = << >>
          /\ resolvedPath.actualPath = filePath
    /\ ResolvedBy = "mounted" =>
          /\ resolvedPath.tempPath = << >>
          /\ resolvedPath.actualPath = HostPath(hostFilesPath, filePath)

\* the file was found on the mounted volume
C19_Witness ==
    /\ lpc = "stat"
    /\ ResolvedBy = "mounted"
    /\ resolvedPath.actualPath = MountRoot \o <<"videos", "file_0.mp4">>
    /\ resolvedPath.actualPath \in files

\* C20: when every applicable method failed, uploadFromLocalPath returns a
\* failure whose error names the reference; each method was tried once and
\* no Create, PATCH or multipart POST was sent.
C20_AccessFailureNamesReference ==
    (resolvedPath.kind = "resolved" /\ ~resolvedPath.success) =>
        /\ LocalReturned
        /\ ~localResult.success
        /\ localResult.error.detail = filePath
        /\ hist.creates = 0
        /\ ~hist.patched
        /\ trace.uploads = 0
        /\ pc = "idle"
        /\ req = NoReq
        /\ \A m \in {"direct", "mounted", "docker", "http"} :
              Cardinality({i \in 1..Len(trace.tried) : trace.tried[i] = m}) <= 1

\* C21: a file of at most the threshold is sent by uploadSmallFile (one
\* multipart POST, and no Create, PATCH or HEAD: the engine is never
\* entered); a larger file is sent by uploadWithTusStreaming (no multipart
\* POST).
C21_PathBySize ==
    /\ (lpc = "small" \/ trace.uploads > 0 \/ req = UploadReq) =>
          /\ fileSize <= TUS_THRESHOLD
          /\ trace.uploads = 1
          /\ pc = "idle"
          /\ hist.creates = 0
          /\ req.kind \notin {"POST", "PATCH", "HEAD"}
    /\ (lpc = "tus" \/ pc # "idle" \/ hist.creates > 0) =>
          /\ fileSize > TUS_THRESHOLD
          /\ trace.uploads = 0
          /\ req # UploadReq

\* a file of exactly the threshold is on the simple path
C21_Witness ==
    /\ lpc = "small"
    /\ fileSize = TUS_THRESHOLD
    /\ req = UploadReq

\* C22, original: in scenario C the engine opens a second session, uploads
\* the whole file to it from offset 0 and succeeds, with 20 PATCH requests
\* in all.
C22_ScenarioC20Requests ==
    (sessions.scenario = "C" /\ pc = "done") =>
        /\ result.success
        /\ hist.creates = 2
        /\ sessions.count = 2
        /\ sessions.data = Bytes(0, fileSize)
        /\ sessions.patches = 2 * ScenarioChunks

\* C22, amended: the same with 15 PATCH requests in all: 5 in the first
\* session (chunks 1 to 4 and the PATCH of chunk 5 that is answered "not
\* found", on which the restart follows at once, without a probe) and 10 in
\* the second.
C22_ScenarioC15Requests ==
    /\ sessions.scenario = "C" =>
          /\ sessions.heads = 0
          /\ sessions.patches <= FaultChunk("C") + ScenarioChunks
          /\ hist.creates <= 2
    /\ (sessions.scenario = "C" /\ pc = "done") =>
          /\ result.success
          /\ hist.creates = 2
          /\ sessions.count = 2
          /\ sessions.data = Bytes(0, fileSize)
          /\ sessions.patches = FaultChunk("C") + ScenarioChunks

\* scenario C has ended, with success
C22_Witness ==
    /\ sessions.scenario = "C"
    /\ sessions.faulted
    /\ pc = "done"
    /\ result.success
    /\ sessionRestarts = 1

\* C23: in scenario B there is one session and exactly 11 PATCH requests
\* (one probe precedes the retry of chunk 3); uploadChunksStreaming returns
\* success with offset = fileSize, and the result carries the lecture id.
C23_ScenarioB11Requests ==
    /\ sessions.scenario = "B" =>
          /\ sessions.patches <= ScenarioChunks + 1
          /\ sessions.heads <= 1
          /\ hist.creates <= 1
          /\ pc = "tus_result" => (chunkResult.success /\ offset = fileSize)
    /\ (sessions.scenario = "B" /\ pc = "done") =>
          /\ result.success
          /\ result.lectureId # 0
          /\ hist.creates = 1
          /\ sessions.data = Bytes(0, fileSize)
          /\ sessions.patches = ScenarioChunks + 1
          /\ sessions.heads = 1

\* scenario B has ended, with success
C23_Witness ==
    /\ sessions.scenario = "B"
    /\ sessions.faulted
    /\ pc = "done"
    /\ result.success
    /\ result.lectureId = 1

\* A request is sent.
Sends == req' # req /\ req' # NoReq

\* C24, original: a request is sent only when none is outstanding (neither
\* a request in flight nor a response to handle), and in a session without
\* offset corrections by the server (409, probe) every PATCH carries an
\* offset larger than the PATCH before it.
C24_StrictlyIncreasingOffsets ==
    /\ [][Sends => (req = NoReq /\ resp = NoResp)]_vars
    /\ [][(Sends /\ req'.kind = "PATCH" /\ hist.lastPatch # -1) =>
             req'.offset > hist.lastPatch]_vars

\* C24, amended: the same with offsets that never decrease: the retry of a
\* chunk repeats the offset of the attempt that failed.
C24_NonDecreasingOffsets ==
    /\ [][Sends => (req = NoReq /\ resp = NoResp)]_vars
    /\ [][(Sends /\ req'.kind = "PATCH" /\ hist.lastPatch # -1) =>
             req'.offset >= hist.lastPatch]_vars
    /\ [](~(req # NoReq /\ resp # NoResp))

\* the PATCH of a later chunk is retried at the offset of the failed attempt
C24_Witness ==
    /\ pc = "await_patch"
    /\ req.kind = "PATCH"
    /\ retry = 1
    /\ hist.lastErr.kind = "response"
    /\ hist.lastErr.status = 500
    /\ req.offset > 0
    /\ hist.lastPatch = req.offset

\* C25: the handle is open while uploadChunksStreaming is in its chunk loop
\* and closed whenever it is not: after every return (success, exhausted
\* retries, expiry seen on a PATCH or on a probe) and after an exception.
C25_HandleClosedOnExit ==
    /\ InChunkLoop => fileHandleOpen
    /\ ~InChunkLoop => ~fileHandleOpen

\* uploadChunksStreaming has returned on an expiry that a probe detected
C25_Witness ==
    /\ pc = "tus_result"
    /\ chunkResult = SessionExpired
    /\ hist.heads > 0
    /\ hist.attempts = hist.heads + 1
    /\ hist.lastErr.kind = "response"
    /\ hist.lastErr.status = 500
    /\ ~hist.lastErr.phrase
    /\ ~fileHandleOpen

\* C26: whatever ends uploadFromLocalPath, its caller gets a result, never
\* an exception: success, or success = false with an error message.
C26_NeverThrows ==
    /\ localResult.kind \in {"none", "result"}
    /\ lpc = "returned" =>
          /\ localResult.kind = "result"
          /\ localResult.success \in BOOLEAN
          /\ ~localResult.success => localResult.error.msg # "null"
    /\ (lpc = "tus" /\ pc = "done") =>
          /\ result.kind = "result"
          /\ ~result.success => result.error.msg # "null"

\* the body of a 2xx answer to the multipart upload was no JSON
C26_Witness ==
    /\ lpc = "returned"
    /\ ~localResult.success
    /\ localResult.error.msg = "Unexpected token"
    /\ trace.uploads = 1
    /\ trace.unlinked = << >>

\* C27: every PATCH carries the current offset in its Upload-Offset header
\* and, as body, exactly min(CHUNK_SIZE, fileSize - offset) bytes, all of
\* them read from the file at that offset; an attempt whose read returned
\* another number of bytes sends no PATCH and is counted as failed.
C27_BodyIsChunkAtOffset ==
    /\ [](req.kind = "PATCH" =>
             /\ req.offset = offset
             /\ req.from = req.offset
             /\ req.len = Min(CHUNK_SIZE, fileSize - req.offset)
             /\ req.read = req.len)
    /\ [][(pc = "read" /\ pc' = "chunk_for") =>
             /\ req' = NoReq
             /\ retry' = retry + 1
             /\ ~success'
             /\ lastError' = Msg("Failed to read chunk from file")]_vars

\* the first attempt of a session ended on a short read: no PATCH was sent
C27_Witness ==
    /\ pc = "chunk_for"
    /\ retry = 1
    /\ lastError = Msg("Failed to read chunk from file")
    /\ ~hist.patched
    /\ req = NoReq

\* bytes of file data the client holds: the chunk buffer of the attempt in
\* flight, or the whole file read by uploadSmallFile
Resident ==
    IF req.kind = "PATCH" THEN req.len
    ELSE IF req = UploadReq THEN fileSize
    ELSE 0

\* C28: while uploadFromLocalPath is on the chunked path, the file data in
\* memory is the single buffer of the attempt in flight, of at most
\* CHUNK_SIZE bytes and less than the file; the file is never read whole.
C28_OneChunkResident ==
    lpc = "tus" =>
        /\ Resident <= CHUNK_SIZE
        /\ Resident < fileSize
        /\ req # UploadReq
        /\ trace.uploads = 0

\* a later chunk of a chunked upload is in flight
C28_Witness ==
    /\ lpc = "tus"
    /\ req.kind = "PATCH"
    /\ req.offset > 0
    /\ Resident = CHUNK_SIZE

C30_NoSharedTempFile ==
    /\ \A t, u \in InFlight :
         t # u => transfers[t].tempFile # transfers[u].tempFile
    /\ \A t \in Transfers : transfers[t].read \in {0, t}


\* C31: a chunked upload that reports success reports the identifier of the
\* latest successful PATCH response of its session that carried one (none
\* if no response did), and never an identifier received in a session that
\* expired.
C31_LatestLectureId ==
    (pc = "done" /\ result.success) =>
        /\ result.lectureId = hist.lecture
        /\ result.lectureId \notin hist.stale

\* success after a session that had announced an identifier expired and
\* the completing session replaced a first identifier by a later one
C31_Witness ==
    /\ pc = "done"
    /\ result.success
    /\ result.lectureId # 0
    /\ hist.replaced
    /\ hist.stale # {}


\* the delay min(1 s * 2^(k-1), 30 s) named for the k-th retry
NominalDelay(k) == Min(RETRY_BASE_DELAY_MS * 2 ^ (k - 1), MAX_RETRY_DELAY_MS)

\* C32: the delay slept before the k-th retry of a chunk is within 25% of
\* min(1 s * 2^(k-1), 30 s).
C32_DelayWithinNominal ==
    pc = "await_head" =>
        /\ 4 * hist.delay >= 3 * NominalDelay(retry)
        /\ 4 * hist.delay <= 5 * NominalDelay(retry)


\* the positions of handleTypeSelection after it has set isUploading
AfterMark == {"edit", "getfile", "upload", "report", "catch", "finally"}

\* C33: when a call of handleTypeSelection that has set isUploading ends,
\* by a return or by an exception of a Telegram API call, isUploading is
\* false.
C33_FlagClearedAtEnd ==
    [][\A i \in Updates :
          (/\ handlers[i].kind = "type"
           /\ handlers[i].pc \in AfterMark
           /\ handlers'[i].pc = "done")
              => ~session'.isUploading]_vars


\* the state of the user's session
SessionState ==
    IF session.isUploading
    THEN IF session.pendingMedia = NoMedia THEN "Uploading" ELSE "Both"
    ELSE IF session.pendingMedia = NoMedia THEN "Idle" ELSE "AwaitingSelection"

GroupMessages(g) ==
    {i \in Updates : handlers[i].group = g /\ handlers[i].outcome # "none"}

\* the first of them
FirstOfGroup(g) == CHOOSE i \in GroupMessages(g) : \A j \in GroupMessages(g) : i <= j

\* C35: of the messages of one album that handleMedia receives within 60 s
\* of the first one, the first is answered with the notice and no other is;
\* no message of an album becomes pendingMedia or starts an upload.
C35_OneNoticePerGroup ==
    \A g \in MediaGroups : \A i \in GroupMessages(g) :
        /\ i = FirstOfGroup(g) => handlers[i].outcome = "notice"
        /\ (/\ i # FirstOfGroup(g)
            /\ handlers[i].at - handlers[FirstOfGroup(g)].at <= MEDIA_GROUP_TTL_MS)
               => handlers[i].outcome = "group"
        /\ handlers[i].outcome \in {"notice", "group"}
        /\ session.pendingMedia.id # i

\* two messages of an album were received 60 s apart with a message of
\* another album in between: one notice for each album
C35_Witness ==
    /\ handlers[1].group = 1 /\ handlers[1].outcome = "notice"
    /\ handlers[2].group = 2 /\ handlers[2].outcome = "notice"
    /\ handlers[3].group = 1 /\ handlers[3].outcome = "group"
    /\ handlers[3].at - handlers[1].at = MEDIA_GROUP_TTL_MS


\* C36: checkMinutesForUpload returns true exactly when the balance is
\* known to cover the estimated minutes, and false in every other case.
C36_TrueIffEnoughMinutes ==
    \A i \in Updates :
        handlers[i].minutes # NoMinutes =>
            (handlers[i].minutes.returned = "true"
                <=> handlers[i].minutes.enough = "yes")

\* C37: a 409 response to a PATCH consumes one unit of the chunk's budget of
\* MAX_RETRIES attempts: it advances the attempt counter by one, a chunk
\* never sees more than MAX_RETRIES conflict responses in a row, and after
\* MAX_RETRIES of them in a row the chunk loop gives up with the failure
\* "Offset mismatch", which uploadWithTusStreaming returns as its result
\* without restarting the session.
C37_ConflictConsumesBudget ==
    /\ [][(PatchHandled /\ resp.status = 409) =>
             /\ retry' = retry + 1
             /\ hist'.conflicts = hist.conflicts + 1]_vars
    /\ [](hist.conflicts <= MAX_RETRIES)
    /\ [][(pc = "chunk_for" /\ hist.conflicts = MAX_RETRIES) =>
             /\ chunkResult' = Failure(Msg("Offset mismatch"))
             /\ pc' = "tus_result"
             /\ req' = req]_vars
    /\ [][(pc = "tus_result" /\ hist.conflicts = MAX_RETRIES) =>
             /\ result' = Failure(Msg("Offset mismatch"))
             /\ pc' = "done"
             /\ sessionRestarts' = sessionRestarts]_vars

\* the fifth conflict response in a row has just ended the chunk loop
C37_Witness ==
    /\ pc = "tus_result"
    /\ hist.conflicts = MAX_RETRIES
    /\ hist.attempts = MAX_RETRIES
    /\ chunkResult = Failure(Msg("Offset mismatch"))

\* C38: once handleTypeSelection has reported on the transfer, the generic
\* error text means that uploadFromLocalPath deleted no file: files are
\* deleted only for a transfer the user is told succeeded.
C38_ErrorMeansFilesKept ==
    (lpc = "returned" /\ handlers[1].pc = "done") =>
        (handlers[1].outcome = "generic" => trace.unlinked = << >>)

\* the answered requests whose Authorization header is not exactly
\* "Bearer " followed by the configured secret
Refused ==
    {i \in 1..Len(webhook.answered) :
        /\ webhook.expectedSecret # ""
        /\ webhook.answered[i].request.authorization
               # Bearer(webhook.expectedSecret)}

\* a message is sent only for an authorized request whose body has the
\* type its route expects
NotifiedOnlyWhenExpected ==
    \A i \in 1..Len(webhook.answered) :
        LET a == webhook.answered[i]
        IN  a.messages # << >> =>
               /\ i \notin Refused
               /\ a.request.body.kind = "json"
               /\ a.request.body.type = ExpectedType(a.request.path)

\* C39, original: with a secret configured, every POST to either route
\* whose Authorization header is not exactly "Bearer <secret>" is answered
\* 401 and sends no message; a message is sent only for an authorized
\* request of the expected notification type.
C39_UnauthorizedIs401 ==
    /\ \A i \in Refused :
          /\ webhook.answered[i].status = 401
          /\ webhook.answered[i].messages = << >>
    /\ NotifiedOnlyWhenExpected

\* C39, amended: with a secret configured, a POST to either route whose
\* Authorization header is not exactly "Bearer <secret>" never sends a
\* message; it is answered 401 when its body passed express.json(), and
\* 400 by the body parser, before the secret is examined, when its body
\* does not parse.  A message is sent only for an authorized request of
\* the expected notification type.
C39_UnauthorizedNeverNotifies ==
    /\ \A i \in Refused :
          /\ webhook.answered[i].status =
                 IF webhook.answered[i].request.body.kind = "malformed"
                 THEN 400 ELSE 401
          /\ webhook.answered[i].messages = << >>
    /\ NotifiedOnlyWhenExpected

\* a well-formed notification bearing another secret was answered 401, and
\* an authorized one caused a message
C39_Witness ==
    /\ \E i \in Refused :
          /\ webhook.answered[i].request.authorization = Bearer("s2")
          /\ webhook.answered[i].request.body.type
                 = ExpectedType(webhook.answered[i].request.path)
          /\ webhook.answered[i].status = 401
    /\ \E i \in 1..Len(webhook.answered) :
          /\ i \notin Refused
          /\ webhook.answered[i].messages # << >>

====
